---- MODULE Spec2Model ----
(***************************************************************************)
(* A model of the exact arithmetic of jmr/s2geometry:                      *)
(*   src/src/s2/util/math/exactfloat/exactfloat.cc  (class ExactFloat)     *)
(*                                                                         *)
(* An ExactFloat is the triple (sign_, bn_exp_, bn_): the value            *)
(* sign_ * bn_ * 2^bn_exp_, or zero / infinity / NaN when bn_exp_ is one   *)
(* of three sentinel exponents.  A double is modelled as a binary float    *)
(* format with kDoubleMantissaBits bits of mantissa, subnormals, signed    *)
(* zeros, infinities and NaN.  All widths are scaled down together so that *)
(* the relations of the source are kept: every double and every int is     *)
(* exactly representable as an ExactFloat, and kMaxPrec exceeds the        *)
(* mantissa width of a double.                                             *)
(*                                                                         *)
(* The state is one client call of the library: the operands it was given, *)
(* its other arguments and what it returned.  A client then either stores  *)
(* the result as an operand of its next call or drops it.                  *)
(***************************************************************************)
EXTENDS Integers, Sequences, FiniteSets

VARIABLES
  op,      \* the operation that was called last, "none" when a call is being set up
  args,    \* the ExactFloat operands of the call, a sequence of length 0..2
  iarg,    \* its int argument (bit_exp, max_prec, exp, or the int converted)
  mode,    \* its rounding mode, "none" when it has none
  res,     \* the ExactFloat it returned, NoEF when it returns none
  din,     \* the double the single operand was constructed from, else NoDbl
  dout,    \* the double it returned, else NoDbl
  bout,    \* the bool it returned (FALSE when it returns none)
  iout     \* the int it returned through a pointer (frexp), else 0

\* A call of ExactFloat::ToStringWithMaxDigits.
VARIABLES
  value,       \* the ExactFloat it is called on, NoEF when there is none
  max_digits,  \* its argument, 0 before the call
  str          \* the string it returned, a sequence of characters

\* One invocation of a predicate of the cascade (s2predicates_internal.h).
VARIABLES
  pred,      \* the predicate invoked, "none" when there is none
  points,    \* its arguments, a sequence of points
  stage,     \* the stage that ran last, "call" before the first
  computed,  \* the value the triage stage computed, 0 outside it
  result,    \* what the stage that ran last returned, 0 when indeterminate
  ran,       \* the stages that have run in this invocation, in order
  returned,  \* whether the invocation has returned
  prev       \* the arguments, the result and the last stage of the invocation
             \* before, or NoCall

\* An Encoder and a Decoder (util/coding/coder.h) and the last call that
\* copied a varint64 from the one to the other.
VARIABLES
  dec_buf,      \* the bytes of the decoder's buffer, up to its limit_
  dec_pos,      \* the decoder's read position: buf_ as an offset
  enc_buf,      \* the bytes encoded so far: length() is Len(enc_buf)
  enc_capacity, \* the size of the encoder's buffer: limit_ as an offset
  coder_call,   \* the function called last, "none" before the first call
  coder_ret,    \* what it returned
  coder_before  \* dec_pos and enc_buf when it was called

\* A vector of unsigned integers, its encoding by EncodeUintVector and an
\* EncodedUintVector<T> initialized from it (encoded_uint_vector.h).
VARIABLES
  uv_v,        \* the vector given to EncodeUintVector
  uv_encoded,  \* the bytes EncodeUintVector wrote, <<>> before it is called
  uv_pos,      \* the read position of the decoder Init was given
  data_,       \* EncodedUintVector::data_, as an offset into uv_encoded
  size_,       \* EncodedUintVector::size_
  len_,        \* EncodedUintVector::len_
  uv_call,     \* the function called last, "none" before the first call
  uv_arg,      \* its argument: an index or a target
  uv_result    \* what it returned: a bool, an element, an index or a vector

\* A call of S2ContainsPointQuery::ShapeContains (s2contains_point_query.h):
\* the query's option, the shape and its clipped part in the cell located
\* for p, and what the call returned.
VARIABLES
  vertex_model,  \* options_.vertex_model()
  shape,         \* has_interior() and the edges clipped.edge(i) names
  contains_center,  \* clipped.contains_center()
  center,        \* it.center()
  query_p,       \* the point p
  cq_call,       \* "none" or "ShapeContains"
  cq_result      \* what ShapeContains returned

\* A call of S2ShapeNestingQuery::ComputeShapeNesting
\* (s2shape_nesting_query.cc): the arrangement of the shape's chains and
\* the relations returned.
VARIABLES
  num_chains,  \* shape->num_chains()
  enclosing,   \* for every chain the chain directly around it, or -1
  ccw,         \* for every chain whether its interior is the inside
  paths,       \* for every chain how the segment from the datum reaches it
  nq_call,     \* "none" or "ComputeShapeNesting"
  relations    \* the vector returned

\* A call of S2LatLng::Normalized (s2latlng.cc): the coordinates of the
\* S2LatLng it is called on and the S2LatLng returned.
VARIABLES
  coords_,    \* S2LatLng::coords_: the latitude and the longitude, doubles
  ll_call,    \* "none" or "Normalized"
  ll_result   \* the coordinates of the S2LatLng returned

\* An S2Polyline (s2polyline.cc) and the last call made on it.
VARIABLES
  num_vertices_,  \* S2Polyline::num_vertices_
  vertices_,      \* S2Polyline::vertices_: the array allocated
  pl_call,        \* "none", "Init" or "Decode"
  pl_ret          \* what Decode returned

exactfloatVars == <<op, args, iarg, mode, res, din, dout, bout, iout>>

toStringVars == <<value, max_digits, str>>

predicateVars ==
  <<pred, points, stage, computed, result, ran, returned, prev>>

coderVars ==
  <<dec_buf, dec_pos, enc_buf, enc_capacity, coder_call, coder_ret,
    coder_before>>

uintVectorVars ==
  <<uv_v, uv_encoded, uv_pos, data_, size_, len_, uv_call, uv_arg, uv_result>>

containsVars ==
  <<vertex_model, shape, contains_center, center, query_p, cq_call, cq_result>>

nestingVars == <<num_chains, enclosing, ccw, paths, nq_call, relations>>

latlngVars == <<coords_, ll_call, ll_result>>

polylineVars == <<num_vertices_, vertices_, pl_call, pl_ret>>

vars == <<exactfloatVars, toStringVars, predicateVars, coderVars, uintVectorVars, containsVars, nestingVars, latlngVars, polylineVars>>

---------------------------------------------------------------------------
(* Bounds: the limits of exactfloat.h, scaled down. *)

\* The maximum number of mantissa bits (64 << 20 in the source).
kMaxPrec == 4

\* The maximum exponent (200 * 1000 * 1000 in the source); kMinExp = -kMaxExp.
kMaxExp == 3

\* The number of mantissa bits of a double, leading 1 included (53).
kDoubleMantissaBits == 2

kMinExp == -kMaxExp

\* The width of an int.  As in the source, |INT_MIN| = 2^(IntBits-1) is
\* within the exponent range of an ExactFloat.
IntBits == kMaxExp

\* The exponent of the lowest bit of a subnormal double (-1074), and of the
\* lowest mantissa bit of the largest finite double (971).  As in the source
\* the range of double lies strictly inside [kMinExp, kMaxExp].
DblMinE == kMinExp + 1
DblMaxE == kMaxExp - kDoubleMantissaBits

---------------------------------------------------------------------------
(* Integer helpers: the BIGNUM primitives. *)

RECURSIVE Pow2(_)
Pow2(k) == IF k <= 0 THEN 1 ELSE 2 * Pow2(k - 1)

\* BN_num_bits
RECURSIVE BN_num_bits(_)
BN_num_bits(n) == IF n <= 0 THEN 0 ELSE 1 + BN_num_bits(n \div 2)

\* BN_ext_count_low_zero_bits: 0 when the argument is zero.
RECURSIVE BN_ext_count_low_zero_bits(_)
BN_ext_count_low_zero_bits(n) ==
  IF n = 0 \/ n % 2 = 1 THEN 0 ELSE 1 + BN_ext_count_low_zero_bits(n \div 2)

BN_is_bit_set(n, i) == (n \div Pow2(i)) % 2 = 1

BN_lshift(n, k) == n * Pow2(k)

BN_rshift(n, k) == n \div Pow2(k)

Abs(n) == IF n < 0 THEN -n ELSE n

Max(x, y) == IF x >= y THEN x ELSE y

Min(x, y) == IF x <= y THEN x ELSE y

---------------------------------------------------------------------------
(* The representation. *)

\* The sentinel exponents: above every exponent a normal value or an
\* intermediate result can have.
kExpZero == 4 * kMaxExp + 2 * kMaxPrec

kExpInfinity == kExpZero + 1

kExpNaN == kExpZero + 2

EF(s, e, m) == [sign |-> s, bn_exp |-> e, bn |-> m]

NoEF == [sign |-> 0, bn_exp |-> 0, bn |-> 0]

is_zero(x) == x.bn_exp = kExpZero

is_inf(x) == x.bn_exp = kExpInfinity

is_nan(x) == x.bn_exp = kExpNaN

is_normal(x) == x.bn_exp < kExpZero

set_zero(sign) == EF(sign, kExpZero, 0)

set_inf(sign) == EF(sign, kExpInfinity, 0)

set_nan == EF(1, kExpNaN, 0)

SignedZero(sign) == set_zero(sign)

Infinity(sign) == set_inf(sign)

NaN == set_nan

prec(x) == BN_num_bits(x.bn)

exp(x) == x.bn_exp + BN_num_bits(x.bn)

CopyWithSign(x, sign) == [x EXCEPT !.sign = sign]

---------------------------------------------------------------------------
(* Canonicalize, lines 582-606. *)

\* Canonicalize as it would be had it left an even mantissa as it is.
CanonicalizeKeepsLowZeros(x) ==
  IF ~is_normal(x) THEN x
  ELSE LET my_exp == exp(x)
           r == IF my_exp < kMinExp \/ x.bn = 0 THEN set_zero(x.sign)
                ELSE IF my_exp > kMaxExp THEN set_inf(x.sign)
                ELSE x
       IN  IF prec(r) > kMaxPrec THEN set_nan ELSE r

\* Canonicalize as it would be without its final test of the precision.
CanonicalizeKeepsWideMantissa(x) ==
  IF ~is_normal(x) THEN x
  ELSE LET my_exp == exp(x)
       IN  IF my_exp < kMinExp \/ x.bn = 0 THEN set_zero(x.sign)
           ELSE IF my_exp > kMaxExp THEN set_inf(x.sign)
           ELSE IF x.bn % 2 = 0
                THEN LET shift == BN_ext_count_low_zero_bits(x.bn)
                     IN  EF(x.sign, x.bn_exp + shift, BN_rshift(x.bn, shift))
                ELSE x

Canonicalize(x) ==
  IF ~is_normal(x) THEN x
  ELSE LET my_exp == exp(x)
           r == IF my_exp < kMinExp \/ x.bn = 0 THEN set_zero(x.sign)
                ELSE IF my_exp > kMaxExp THEN set_inf(x.sign)
                ELSE IF x.bn % 2 = 0
                     THEN LET shift == BN_ext_count_low_zero_bits(x.bn)
                          IN  EF(x.sign, x.bn_exp + shift, BN_rshift(x.bn, shift))
                     ELSE x
       IN  IF prec(r) > kMaxPrec THEN set_nan ELSE r

---------------------------------------------------------------------------
(* Addition and subtraction, lines 514-580. *)

\* SignedSumSpecial as it would be had the sum of two zeros of opposite sign
\* taken the sign of the first.
SignedSumSpecialFirstZeroSign(a_sign, a, b_sign, b) ==
  IF is_nan(a) THEN a
  ELSE IF is_nan(b) THEN b
  ELSE IF is_inf(a)
       THEN IF is_inf(b) /\ a_sign # b_sign THEN NaN ELSE Infinity(a_sign)
  ELSE IF is_inf(b) THEN Infinity(b_sign)
  ELSE IF is_zero(a)
       THEN IF ~is_zero(b) THEN CopyWithSign(b, b_sign)
            ELSE SignedZero(a_sign)
  ELSE CopyWithSign(a, a_sign)

\* The branch of SignedSum for a zero, infinite or NaN operand (526-545).
SignedSumSpecial(a_sign, a, b_sign, b) ==
  IF is_nan(a) THEN a
  ELSE IF is_nan(b) THEN b
  ELSE IF is_inf(a)
       THEN IF is_inf(b) /\ a_sign # b_sign THEN NaN ELSE Infinity(a_sign)
  ELSE IF is_inf(b) THEN Infinity(b_sign)
  ELSE IF is_zero(a)
       THEN IF ~is_zero(b) THEN CopyWithSign(b, b_sign)
            ELSE IF a_sign = b_sign THEN SignedZero(a_sign)
            ELSE SignedZero(1)
  ELSE CopyWithSign(a, a_sign)

\* SignedSumNormal as it would be had a difference always taken the sign of
\* the operand with the larger bn_exp_.
SignedSumNormalSignOfShifted(a_sign, a, b_sign, b) ==
  LET swap == a.bn_exp < b.bn_exp
      a1 == IF swap THEN b ELSE a
      b1 == IF swap THEN a ELSE b
      a1_sign == IF swap THEN b_sign ELSE a_sign
      b1_sign == IF swap THEN a_sign ELSE b_sign
      a_bn == IF a1.bn_exp > b1.bn_exp
              THEN BN_lshift(a1.bn, a1.bn_exp - b1.bn_exp)
              ELSE a1.bn
  IN  IF a1_sign = b1_sign
      THEN Canonicalize(EF(a1_sign, b1.bn_exp, a_bn + b1.bn))
      ELSE LET diff == a_bn - b1.bn
               sign == IF diff = 0 THEN 1 ELSE a1_sign
           IN  Canonicalize(EF(sign, b1.bn_exp, Abs(diff)))

\* The branch of SignedSum for two normal operands (546-579): the operand
\* with the larger bn_exp_ is shifted left to the smaller one, then the
\* mantissas are added or subtracted.
SignedSumNormal(a_sign, a, b_sign, b) ==
  LET swap == a.bn_exp < b.bn_exp
      a1 == IF swap THEN b ELSE a
      b1 == IF swap THEN a ELSE b
      a1_sign == IF swap THEN b_sign ELSE a_sign
      b1_sign == IF swap THEN a_sign ELSE b_sign
      a_bn == IF a1.bn_exp > b1.bn_exp
              THEN BN_lshift(a1.bn, a1.bn_exp - b1.bn_exp)
              ELSE a1.bn
  IN  IF a1_sign = b1_sign
      THEN Canonicalize(EF(a1_sign, b1.bn_exp, a_bn + b1.bn))
      ELSE LET diff == a_bn - b1.bn
               sign == IF diff = 0 THEN 1
                       ELSE IF diff < 0 THEN b1_sign
                       ELSE a1_sign
           IN  Canonicalize(EF(sign, b1.bn_exp, Abs(diff)))

SignedSum(a_sign, a, b_sign, b) ==
  IF ~is_normal(a) \/ ~is_normal(b)
  THEN SignedSumSpecial(a_sign, a, b_sign, b)
  ELSE SignedSumNormal(a_sign, a, b_sign, b)

Neg(a) == CopyWithSign(a, -a.sign)

Plus(a, b) == SignedSum(a.sign, a, b.sign, b)

Minus(a, b) == SignedSum(a.sign, a, -b.sign, b)

---------------------------------------------------------------------------
(* Multiplication, lines 608-634. *)

\* The branch of operator* for a zero, infinite or NaN operand (610-625).
TimesSpecial(a, b) ==
  LET result_sign == a.sign * b.sign
  IN  IF is_nan(a) THEN a
      ELSE IF is_nan(b) THEN b
      ELSE IF is_inf(a)
           THEN IF is_zero(b) THEN NaN ELSE Infinity(result_sign)
      ELSE IF is_inf(b)
           THEN IF is_zero(a) THEN NaN ELSE Infinity(result_sign)
      ELSE SignedZero(result_sign)

\* TimesNormal as it would be had the product taken the sign of the first
\* operand.
TimesNormalSignOfFirst(a, b) ==
  Canonicalize(EF(a.sign, a.bn_exp + b.bn_exp, a.bn * b.bn))

\* The branch of operator* for two normal operands (626-633).
TimesNormal(a, b) ==
  Canonicalize(EF(a.sign * b.sign, a.bn_exp + b.bn_exp, a.bn * b.bn))

Times(a, b) ==
  IF ~is_normal(a) \/ ~is_normal(b) THEN TimesSpecial(a, b)
  ELSE TimesNormal(a, b)

---------------------------------------------------------------------------
(* Comparison, lines 636-681. *)

BN_ucmp(m, n) == IF m < n THEN -1 ELSE IF m > n THEN 1 ELSE 0

Equals(a, b) ==
  IF is_nan(a) \/ is_nan(b) THEN FALSE
  ELSE IF a.bn_exp # b.bn_exp THEN FALSE
  ELSE IF is_zero(a) /\ is_zero(b) THEN TRUE
  ELSE a.sign = b.sign /\ BN_ucmp(a.bn, b.bn) = 0

\* a.ScaleAndCompare(b); requires a.bn_exp_ >= b.bn_exp_.
ScaleAndCompare(a, b) == BN_ucmp(BN_lshift(a.bn, a.bn_exp - b.bn_exp), b.bn)

\* a.UnsignedLess(b)
UnsignedLess(a, b) ==
  IF is_inf(a) \/ is_zero(b) THEN FALSE
  ELSE IF is_zero(a) \/ is_inf(b) THEN TRUE
  ELSE LET cmp == exp(a) - exp(b)
       IN  IF cmp # 0 THEN cmp < 0
           ELSE IF a.bn_exp >= b.bn_exp THEN ScaleAndCompare(a, b) < 0
           ELSE ScaleAndCompare(b, a) > 0

\* operator< as it would be had it compared the magnitudes of two negative
\* values in the order of two positive ones.
LessMagnitudeOrder(a, b) ==
  IF is_nan(a) \/ is_nan(b) THEN FALSE
  ELSE IF is_zero(a) /\ is_zero(b) THEN FALSE
  ELSE IF a.sign # b.sign THEN a.sign < b.sign
  ELSE UnsignedLess(a, b)

Less(a, b) ==
  IF is_nan(a) \/ is_nan(b) THEN FALSE
  ELSE IF is_zero(a) /\ is_zero(b) THEN FALSE
  ELSE IF a.sign # b.sign THEN a.sign < b.sign
  ELSE IF a.sign > 0 THEN UnsignedLess(a, b)
  ELSE UnsignedLess(b, a)

---------------------------------------------------------------------------
(* Rounding, lines 274-345 and 714-732. *)

RoundingModes ==
  { "kRoundTiesToEven", "kRoundTiesAwayFromZero", "kRoundTowardZero",
    "kRoundAwayFromZero", "kRoundTowardPositive", "kRoundTowardNegative" }

\* Lines 303-307: rounding up or down becomes rounding toward or away from
\* zero, by the sign of the value.
DirectedMode(sign, m) ==
  IF m = "kRoundTowardPositive"
  THEN (IF sign > 0 THEN "kRoundAwayFromZero" ELSE "kRoundTowardZero")
  ELSE IF m = "kRoundTowardNegative"
  THEN (IF sign > 0 THEN "kRoundTowardZero" ELSE "kRoundAwayFromZero")
  ELSE m

\* Increment as it would be had kRoundTiesToEven looked at the highest
\* discarded bit alone.
IncrementOnHalf(bn, shift, m) ==
  IF m = "kRoundTowardZero" THEN FALSE
  ELSE IF m = "kRoundTiesAwayFromZero" THEN BN_is_bit_set(bn, shift - 1)
  ELSE IF m = "kRoundAwayFromZero"
       THEN BN_ext_count_low_zero_bits(bn) < shift
  ELSE BN_is_bit_set(bn, shift - 1)

\* Lines 314-336: whether the mantissa, shifted right by "shift" > 0, is
\* then incremented.  m is never one of the two directed modes here.
Increment(bn, shift, m) ==
  IF m = "kRoundTowardZero" THEN FALSE
  ELSE IF m = "kRoundTiesAwayFromZero" THEN BN_is_bit_set(bn, shift - 1)
  ELSE IF m = "kRoundAwayFromZero"
       THEN BN_ext_count_low_zero_bits(bn) < shift
  ELSE /\ BN_is_bit_set(bn, shift - 1)
       /\ \/ BN_is_bit_set(bn, shift)
          \/ BN_ext_count_low_zero_bits(bn) < shift - 1

RoundToPowerOf2(x, bit_exp, m) ==
  LET shift == bit_exp - x.bn_exp
  IN  IF shift <= 0 THEN x
      ELSE LET increment == Increment(x.bn, shift, DirectedMode(x.sign, m))
               bn == BN_rshift(x.bn, shift) + (IF increment THEN 1 ELSE 0)
           IN  Canonicalize(EF(x.sign, x.bn_exp + shift, bn))

RoundToMaxPrec(x, max_prec, m) ==
  LET shift == prec(x) - max_prec
  IN  IF shift <= 0 THEN x
      ELSE RoundToPowerOf2(x, x.bn_exp + shift, m)

ceil(a) == RoundToPowerOf2(a, 0, "kRoundTowardPositive")

floor(a) == RoundToPowerOf2(a, 0, "kRoundTowardNegative")

trunc(a) == RoundToPowerOf2(a, 0, "kRoundTowardZero")

round(a) == RoundToPowerOf2(a, 0, "kRoundTiesAwayFromZero")

rint(a) == RoundToPowerOf2(a, 0, "kRoundTiesToEven")

---------------------------------------------------------------------------
(* ldexp and frexp, lines 776-801. *)

ldexp(a, e) ==
  IF ~is_normal(a) THEN a
  ELSE LET a_exp == exp(a)
           clamped == Min(kMaxExp + 1 - a_exp, Max(kMinExp - 1 + a_exp, e))
       IN  Canonicalize(EF(a.sign, a.bn_exp + clamped, a.bn))

\* frexp returns the fraction and, through its pointer, the exponent.
frexp(a) ==
  IF ~is_normal(a) THEN [f |-> a, e |-> 0]
  ELSE [f |-> ldexp(a, -exp(a)), e |-> exp(a)]

---------------------------------------------------------------------------
(* double: the value s * m * 2^e.  A finite double has 0 < m <              *)
(* 2^kDoubleMantissaBits and DblMinE <= e <= DblMaxE, and is normalised: m  *)
(* has kDoubleMantissaBits bits, or e = DblMinE (a subnormal).              *)

Dbl(k, s, m, e) == [k |-> k, s |-> s, m |-> m, e |-> e]

NoDbl == Dbl("none", 0, 0, 0)

DblZero(s) == Dbl("zero", s, 0, 0)

DblInf(s) == Dbl("inf", s, 0, 0)

DblNaN(s) == Dbl("nan", s, 0, 0)

FiniteDoubles ==
  { d \in { Dbl("fin", s, m, e) : s \in {1, -1},
                                  m \in 1..(Pow2(kDoubleMantissaBits) - 1),
                                  e \in DblMinE..DblMaxE } :
      d.m >= Pow2(kDoubleMantissaBits - 1) \/ d.e = DblMinE }

Doubles ==
  FiniteDoubles \cup { DblZero(1), DblZero(-1), DblInf(1), DblInf(-1),
                       DblNaN(1), DblNaN(-1) }

\* The double nearest to m * 2^e (m > 0), ties to the even mantissa, +0
\* on underflow and +infinity on overflow: what the conversion of an integer
\* to double, and ldexp() on a double, compute.
RoundToDouble(m, e) ==
  LET len == BN_num_bits(m)
      et == Max(e + len - kDoubleMantissaBits, DblMinE)
      sh == et - e
      q == m \div Pow2(sh)
      rem == m % Pow2(sh)
      half == Pow2(sh - 1)
      up == sh > 0 /\ (rem > half \/ (rem = half /\ q % 2 = 1))
      m1 == IF sh <= 0 THEN m * Pow2(-sh) ELSE IF up THEN q + 1 ELSE q
      carry == m1 = Pow2(kDoubleMantissaBits)
      m2 == IF carry THEN Pow2(kDoubleMantissaBits - 1) ELSE m1
      e2 == IF carry THEN et + 1 ELSE et
  IN  IF m2 = 0 THEN DblZero(1)
      ELSE IF e2 > DblMaxE THEN DblInf(1)
      ELSE Dbl("fin", 1, m2, e2)

\* static_cast<double>(uint64_t)
DoubleFromUint64(m) == IF m = 0 THEN DblZero(1) ELSE RoundToDouble(m, 0)

\* ldexp(double, int) of <cmath>
ldexpDouble(d, n) ==
  IF d.k # "fin" THEN d
  ELSE [RoundToDouble(d.m, d.e + n) EXCEPT !.s = d.s]

\* frexp(double, int*) of <cmath> on a finite double: the fraction f in
\* [0.5, 1) is d.m * 2^(-len), held here as the pair (m, -len).
frexpDouble(d) ==
  IF d.k = "zero" THEN [m |-> 0, fe |-> 0, exp |-> 0]
  ELSE LET len == BN_num_bits(d.m)
       IN  [m |-> d.m, fe |-> -len, exp |-> d.e + len]

signbit(d) == d.s < 0

\* sign * d for sign in {+1, -1}
TimesSign(sign, d) == [d EXCEPT !.s = sign * d.s]

copysign(d, sign) == [d EXCEPT !.s = sign]

---------------------------------------------------------------------------
(* Constructors and conversion to double, lines 170-199 and 249-272. *)

\* ExactFloat(double) as it would be had it taken the sign from v < 0, which
\* is false of -0.0.
ExactFloatFromDoubleSignByCompare(v) ==
  LET sign == IF v.k # "zero" /\ v.s < 0 THEN -1 ELSE 1
  IN  IF v.k = "nan" THEN set_nan
      ELSE IF v.k = "inf" THEN set_inf(sign)
      ELSE LET fr == frexpDouble(v)
               m == fr.m * Pow2(fr.fe + kDoubleMantissaBits)
           IN  Canonicalize(EF(sign, fr.exp - kDoubleMantissaBits, m))

\* ExactFloat(double v)
ExactFloatFromDouble(v) ==
  LET sign == IF signbit(v) THEN -1 ELSE 1
  IN  IF v.k = "nan" THEN set_nan
      ELSE IF v.k = "inf" THEN set_inf(sign)
      ELSE LET fr == frexpDouble(v)
               \* ldexp(f, kDoubleMantissaBits) is an integer
               m == fr.m * Pow2(fr.fe + kDoubleMantissaBits)
           IN  Canonicalize(EF(sign, fr.exp - kDoubleMantissaBits, m))

INT_MIN == -Pow2(IntBits - 1)

INT_MAX == Pow2(IntBits - 1) - 1

Ints == INT_MIN..INT_MAX

\* What BN_set_word(bn, abs(v)) stores.  abs(INT_MIN) is undefined: it
\* overflows int.  A build that wraps leaves INT_MIN, and its conversion to
\* BN_ULONG is 2^(IntBits-1) when BN_ULONG is as wide as int and
\* sign-extends when BN_ULONG is twice as wide.
AbsWord(v) ==
  IF v = INT_MIN
  THEN { Pow2(IntBits - 1), Pow2(2 * IntBits) - Pow2(IntBits - 1) }
  ELSE { Abs(v) }

\* ExactFloat(int v), with w the word BN_set_word stored.
ExactFloatFromInt(v, w) ==
  Canonicalize(EF(IF v >= 0 THEN 1 ELSE -1, 0, w))

ToDoubleHelper(x) ==
  IF ~is_normal(x)
  THEN IF is_zero(x) THEN copysign(DblZero(1), x.sign)
       ELSE IF is_inf(x) THEN copysign(DblInf(1), x.sign)
       ELSE copysign(DblNaN(1), x.sign)
  ELSE TimesSign(x.sign, ldexpDouble(DoubleFromUint64(x.bn), x.bn_exp))

ToDouble(x) ==
  IF prec(x) <= kDoubleMantissaBits THEN ToDoubleHelper(x)
  ELSE ToDoubleHelper(RoundToMaxPrec(x, kDoubleMantissaBits, "kRoundTiesToEven"))

---------------------------------------------------------------------------
(* The values a client can hold.  Every canonical value is the result of   *)
(* library calls: +-ldexp(ExactFloat(1), e) gives every power of two in    *)
(* range, sums of those give every odd mantissa of at most kMaxPrec bits,  *)
(* and SignedZero(), Infinity(), NaN() and operator- give the rest.        *)

NormalValues ==
  { x \in { EF(s, e, m) : s \in {1, -1},
                          e \in (kMinExp - kMaxPrec)..(kMaxExp - 1),
                          m \in 1..(Pow2(kMaxPrec) - 1) } :
      /\ x.bn % 2 = 1
      /\ exp(x) >= kMinExp
      /\ exp(x) <= kMaxExp }

SpecialValues ==
  { EF(s, e, 0) : s \in {1, -1}, e \in {kExpZero, kExpInfinity, kExpNaN} }

ExactFloats == NormalValues \cup SpecialValues

\* The bit_exp arguments RoundToPowerOf2 accepts (lines 292-293), the
\* max_prec arguments RoundToMaxPrec accepts (277-278), and the exp
\* arguments given to ldexp.
BitExps == (kMinExp - kMaxPrec)..kMaxExp

MaxPrecs == 2..kMaxPrec

LdexpArgs == (-(2 * kMaxExp + 2))..(2 * kMaxExp + 2)

Range(f) == { f[i] : i \in DOMAIN f }

---------------------------------------------------------------------------
(* The parts of the library are used apart: while one is exercised the     *)
(* state of the others is idle.                                            *)

ExactFloatIdle ==
  /\ op = "none"
  /\ args = <<>>
  /\ iarg = 0
  /\ mode = "none"
  /\ res = NoEF
  /\ din = NoDbl
  /\ dout = NoDbl
  /\ bout = FALSE
  /\ iout = 0

ToStringIdle ==
  /\ value = NoEF
  /\ max_digits = 0
  /\ str = <<>>

NoCall == [points |-> <<>>, result |-> 0, stage |-> "call"]

PredicateIdle ==
  /\ pred = "none"
  /\ points = <<>>
  /\ stage = "call"
  /\ computed = 0
  /\ result = 0
  /\ ran = <<>>
  /\ returned = FALSE
  /\ prev = NoCall

NoCoderCall == [dec_pos |-> 0, enc_buf |-> <<>>]

CoderIdle ==
  /\ dec_buf = <<>>
  /\ dec_pos = 0
  /\ enc_buf = <<>>
  /\ enc_capacity = 0
  /\ coder_call = "none"
  /\ coder_ret = FALSE
  /\ coder_before = NoCoderCall

UintVectorIdle ==
  /\ uv_v = <<>>
  /\ uv_encoded = <<>>
  /\ uv_pos = 0
  /\ data_ = 0
  /\ size_ = 0
  /\ len_ = 0
  /\ uv_call = "none"
  /\ uv_arg = 0
  /\ uv_result = 0

ContainsIdle ==
  /\ vertex_model = "SEMI_OPEN"
  /\ shape = [has_interior |-> FALSE, edges |-> <<>>]
  /\ contains_center = FALSE
  /\ center = 0
  /\ query_p = 0
  /\ cq_call = "none"
  /\ cq_result = FALSE

NestingIdle ==
  /\ num_chains = 0
  /\ enclosing = <<>>
  /\ ccw = <<>>
  /\ paths = <<>>
  /\ nq_call = "none"
  /\ relations = <<>>

LatLngIdle ==
  /\ coords_ = <<>>
  /\ ll_call = "none"
  /\ ll_result = <<>>

PolylineIdle ==
  /\ num_vertices_ = 0
  /\ vertices_ = <<>>
  /\ pl_call = "none"
  /\ pl_ret = FALSE

\* The state outside the arithmetic calls.
exactfloatRest == <<toStringVars, predicateVars, coderVars, uintVectorVars, containsVars, nestingVars, latlngVars, polylineVars>>

---------------------------------------------------------------------------
(* The client. *)

Init ==
  /\ PolylineIdle
  /\ LatLngIdle
  /\ NestingIdle
  /\ ContainsIdle
  /\ UintVectorIdle
  /\ CoderIdle
  /\ ToStringIdle
  /\ PredicateIdle
  /\ op = "none"
  /\ args \in {<<>>} \cup { <<a>> : a \in ExactFloats }
                     \cup { <<a, b>> : a \in ExactFloats, b \in ExactFloats }
  /\ iarg = 0
  /\ mode = "none"
  /\ res = NoEF
  /\ din = NoDbl
  /\ dout = NoDbl
  /\ bout = FALSE
  /\ iout = 0

\* A call of operation "name" returns.
Return(name, i, m, r, d, b, io) ==
  /\ op' = name
  /\ iarg' = i
  /\ mode' = m
  /\ res' = r
  /\ dout' = d
  /\ bout' = b
  /\ iout' = io
  /\ UNCHANGED args
  /\ UNCHANGED exactfloatRest

Ready(n) == op = "none" /\ Len(args) = n

NewFromDouble ==
  /\ Ready(0)
  /\ \E d \in Doubles :
       /\ din' = d
       /\ Return("ExactFloat(double)", 0, "none", ExactFloatFromDouble(d),
                 NoDbl, FALSE, 0)

NewFromInt ==
  /\ Ready(0)
  /\ \E v \in Ints : \E w \in AbsWord(v) :
       Return("ExactFloat(int)", v, "none", ExactFloatFromInt(v, w),
              NoDbl, FALSE, 0)
  /\ UNCHANGED din

Negate ==
  /\ Ready(1)
  /\ Return("operator-()", 0, "none", Neg(args[1]), NoDbl, FALSE, 0)
  /\ UNCHANGED din

CallRoundToMaxPrec ==
  /\ Ready(1)
  /\ \E p \in MaxPrecs, m \in RoundingModes :
       Return("RoundToMaxPrec", p, m, RoundToMaxPrec(args[1], p, m),
              NoDbl, FALSE, 0)
  /\ UNCHANGED din

CallRoundToPowerOf2 ==
  /\ Ready(1)
  /\ \E be \in BitExps, m \in RoundingModes :
       Return("RoundToPowerOf2", be, m, RoundToPowerOf2(args[1], be, m),
              NoDbl, FALSE, 0)
  /\ UNCHANGED din

CallCeil ==
  /\ Ready(1)
  /\ Return("ceil", 0, "none", ceil(args[1]), NoDbl, FALSE, 0)
  /\ UNCHANGED din

CallFloor ==
  /\ Ready(1)
  /\ Return("floor", 0, "none", floor(args[1]), NoDbl, FALSE, 0)
  /\ UNCHANGED din

CallTrunc ==
  /\ Ready(1)
  /\ Return("trunc", 0, "none", trunc(args[1]), NoDbl, FALSE, 0)
  /\ UNCHANGED din

CallRound ==
  /\ Ready(1)
  /\ Return("round", 0, "none", round(args[1]), NoDbl, FALSE, 0)
  /\ UNCHANGED din

CallRint ==
  /\ Ready(1)
  /\ Return("rint", 0, "none", rint(args[1]), NoDbl, FALSE, 0)
  /\ UNCHANGED din

CallLdexp ==
  /\ Ready(1)
  /\ \E e \in LdexpArgs :
       Return("ldexp", e, "none", ldexp(args[1], e), NoDbl, FALSE, 0)
  /\ UNCHANGED din

CallFrexp ==
  /\ Ready(1)
  /\ LET fr == frexp(args[1])
     IN  Return("frexp", 0, "none", fr.f, NoDbl, FALSE, fr.e)
  /\ UNCHANGED din

CallToDouble ==
  /\ Ready(1)
  /\ Return("ToDouble", 0, "none", NoEF, ToDouble(args[1]), FALSE, 0)
  /\ UNCHANGED din

Add ==
  /\ Ready(2)
  /\ Return("operator+", 0, "none", Plus(args[1], args[2]), NoDbl, FALSE, 0)
  /\ UNCHANGED din

Subtract ==
  /\ Ready(2)
  /\ Return("operator-", 0, "none", Minus(args[1], args[2]), NoDbl, FALSE, 0)
  /\ UNCHANGED din

Multiply ==
  /\ Ready(2)
  /\ Return("operator*", 0, "none", Times(args[1], args[2]), NoDbl, FALSE, 0)
  /\ UNCHANGED din

CompareEqual ==
  /\ Ready(2)
  /\ Return("operator==", 0, "none", NoEF, NoDbl, Equals(args[1], args[2]), 0)
  /\ UNCHANGED din

CompareLess ==
  /\ Ready(2)
  /\ Return("operator<", 0, "none", NoEF, NoDbl, Less(args[1], args[2]), 0)
  /\ UNCHANGED din

\* The client keeps the ExactFloat a call returned as an operand of its next
\* call, alone or beside a value it already holds (operator=, 505-512).
Assign ==
  /\ op # "none"
  /\ res # NoEF
  /\ \/ args' = <<res>>
     \/ \E x \in Range(args) \cup {res} :
          args' = <<res, x>> \/ args' = <<x, res>>
  /\ din' = IF op = "ExactFloat(double)" /\ args' = <<res>> THEN din ELSE NoDbl
  /\ op' = "none"
  /\ iarg' = 0
  /\ mode' = "none"
  /\ res' = NoEF
  /\ dout' = NoDbl
  /\ bout' = FALSE
  /\ iout' = 0
  /\ UNCHANGED exactfloatRest

\* The client drops what a call returned and keeps the operands.
Drop ==
  /\ op # "none"
  /\ op' = "none"
  /\ iarg' = 0
  /\ mode' = "none"
  /\ res' = NoEF
  /\ dout' = NoDbl
  /\ bout' = FALSE
  /\ iout' = 0
  /\ din' = IF Len(args) = 1 THEN din ELSE NoDbl
  /\ UNCHANGED args
  /\ UNCHANGED exactfloatRest

Next ==
  \/ NewFromDouble
  \/ NewFromInt
  \/ Negate
  \/ CallRoundToMaxPrec
  \/ CallRoundToPowerOf2
  \/ CallCeil
  \/ CallFloor
  \/ CallTrunc
  \/ CallRound
  \/ CallRint
  \/ CallLdexp
  \/ CallFrexp
  \/ CallToDouble
  \/ Add
  \/ Subtract
  \/ Multiply
  \/ CompareEqual
  \/ CompareLess
  \/ Assign
  \/ Drop

Spec == Init /\ [][Next]_vars

---------------------------------------------------------------------------
(* What the properties are stated with.                                    *)

\* The ExactFloat values of the state: the operands and the result.
Held == Range(args) \cup (IF res = NoEF THEN {} ELSE {res})

\* The exponent of the lowest mantissa bit a canonical value can have.
LowExp == kMinExp - kMaxPrec

\* The real value of a zero or normal x, as the integer x / 2^LowExp.
IntVal(x) ==
  IF is_normal(x) THEN x.sign * x.bn * Pow2(x.bn_exp - LowExp) ELSE 0

\* The number of mantissa bits the integer n needs, and the exponent
\* exp() of the value n * 2^scale.
OddPrec(n) == BN_num_bits(Abs(n)) - BN_ext_count_low_zero_bits(Abs(n))

ExpOf(n, scale) == scale + BN_num_bits(Abs(n))

Sgn(n) == IF n < 0 THEN -1 ELSE 1

BothNormal == Len(args) = 2 /\ is_normal(args[1]) /\ is_normal(args[2])

\* The exact sum or difference of two normal operands, over 2^LowExp.
ExactSum ==
  IF op = "operator-" THEN IntVal(args[1]) - IntVal(args[2])
  ELSE IntVal(args[1]) + IntVal(args[2])

\* The exact product of two normal operands, over 2^(2 * LowExp).
ExactProduct == IntVal(args[1]) * IntVal(args[2])

\* The real value of a zero or normal x as the integer x / 2^(2 * LowExp).
IntVal2(x) == IntVal(x) * Pow2(-LowExp)

---------------------------------------------------------------------------
(* C1: canonical form. *)

Canonical(x) ==
  \/ /\ x.bn_exp \in {kExpZero, kExpInfinity, kExpNaN}
     /\ x.bn = 0
  \/ /\ is_normal(x)
     /\ x.bn % 2 = 1

\* Whether two normal values are the same real number.
SameReal(x, y) ==
  LET lo == Min(x.bn_exp, y.bn_exp)
  IN  x.sign * x.bn * Pow2(x.bn_exp - lo) = y.sign * y.bn * Pow2(y.bn_exp - lo)

\* C1: every value an operation returns, like every operand it is later given,
\* is zero, infinity or NaN with a zero mantissa, or normal with an odd
\* mantissa; so two normal values that are the same real number have the
\* same sign, bn_exp_ and mantissa.
C1_Canonical ==
  /\ \A x \in Held : Canonical(x)
  /\ \A x \in Held : \A y \in Held :
       is_normal(x) /\ is_normal(y) /\ SameReal(x, y) => x = y

\* A sum of two normal values whose aligned mantissas add up to an even
\* number: Canonicalize moved the low zero bits into the exponent.
C1_Witness ==
  /\ op = "operator+"
  /\ BothNormal
  /\ is_normal(res)
  /\ res.bn_exp > Min(args[1].bn_exp, args[2].bn_exp)

---------------------------------------------------------------------------
(* C2: the precision limit. *)

Arithmetic == op \in {"operator+", "operator-", "operator*"}

\* The exact result of the arithmetic call, and the power of two it is over.
ExactResult == IF op = "operator*" THEN ExactProduct ELSE ExactSum

ExactScale == IF op = "operator*" THEN 2 * LowExp ELSE LowExp

TooWide == OddPrec(ExactResult) > kMaxPrec

\* C2 as claimed: no value has more than kMaxPrec mantissa bits, and an
\* operation whose exact result needs more returns NaN.
C2_AsClaimed ==
  /\ \A x \in Held : prec(x) <= kMaxPrec
  /\ Arithmetic /\ BothNormal /\ TooWide => is_nan(res)

\* C2 amended: no value has more than kMaxPrec mantissa bits, and an
\* operation whose exact result needs more returns NaN when the exponent of
\* that result is within [kMinExp, kMaxExp]; below kMinExp it returns zero
\* and above kMaxExp infinity, as for a result of any width.
C2_WideIsNaNInRange ==
  /\ \A x \in Held : prec(x) <= kMaxPrec
  /\ Arithmetic /\ BothNormal /\ TooWide =>
       LET e == ExpOf(ExactResult, ExactScale)
       IN  IF e < kMinExp THEN is_zero(res)
           ELSE IF e > kMaxExp THEN is_inf(res)
           ELSE is_nan(res)

\* A product within the exponent range whose mantissa is too wide.
C2_Witness ==
  /\ op = "operator*"
  /\ BothNormal
  /\ TooWide
  /\ ExpOf(ExactResult, ExactScale) <= kMaxExp
  /\ ExpOf(ExactResult, ExactScale) >= kMinExp
  /\ is_nan(res)

---------------------------------------------------------------------------
(* C3: double -> ExactFloat -> double. *)

\* C3: ToDouble() of the ExactFloat constructed from a double d that is not
\* NaN returns d, sign bit included.
C3_RoundTrip ==
  op = "ToDouble" /\ din # NoDbl /\ din.k # "nan" => dout = din

\* The round trip of -0.0.
C3_Witness ==
  /\ op = "ToDouble"
  /\ din = DblZero(-1)
  /\ dout = din

---------------------------------------------------------------------------
(* C4: exact sums and differences. *)

Fits(n, scale) ==
  \/ n = 0
  \/ /\ OddPrec(n) <= kMaxPrec
     /\ ExpOf(n, scale) >= kMinExp
     /\ ExpOf(n, scale) <= kMaxExp

\* The sign of the term of larger magnitude (of the first when they tie).
LargerTermSign ==
  IF Abs(IntVal(args[1])) >= Abs(IntVal(args[2])) THEN Sgn(IntVal(args[1]))
  ELSE IF op = "operator-" THEN -Sgn(IntVal(args[2]))
  ELSE Sgn(IntVal(args[2]))

\* C4: for normal operands a + b and a - b are the exact sum and difference
\* whenever that fits the exponent and precision limits; the sign is that of
\* the term of larger magnitude and an exactly cancelling result is +0.
C4_ExactSum ==
  op \in {"operator+", "operator-"} /\ BothNormal /\ Fits(ExactSum, LowExp) =>
    IF ExactSum = 0 THEN res = SignedZero(1)
    ELSE /\ is_normal(res)
         /\ IntVal(res) = ExactSum
         /\ res.sign = LargerTermSign

\* A difference of operands with different bn_exp_ whose second operand is
\* the larger one, and one that cancels exactly.
C4_Witness ==
  /\ op = "operator-"
  /\ BothNormal
  /\ args[1].bn_exp > args[2].bn_exp
  /\ args[1].sign = args[2].sign
  /\ Abs(IntVal(args[2])) > Abs(IntVal(args[1]))
  /\ is_normal(res)
  /\ res.sign = -args[1].sign

---------------------------------------------------------------------------
(* C5: operator+ on zero, infinity and NaN. *)

\* C5: NaN + x and x + NaN are NaN; infinities of opposite sign add to NaN;
\* otherwise an infinity plus anything is that infinity; zeros add to -0
\* when both are -0 and to +0 otherwise; a zero plus a normal value is that
\* normal value.
C5_SpecialSums ==
  op = "operator+" /\ ~BothNormal =>
    LET a == args[1]
        b == args[2]
    IN  IF is_nan(a) \/ is_nan(b) THEN is_nan(res)
        ELSE IF is_inf(a) /\ is_inf(b) /\ a.sign # b.sign THEN is_nan(res)
        ELSE IF is_inf(a) THEN res = Infinity(a.sign)
        ELSE IF is_inf(b) THEN res = Infinity(b.sign)
        ELSE IF is_zero(a) /\ is_zero(b)
             THEN res = SignedZero(IF a.sign < 0 /\ b.sign < 0 THEN -1 ELSE 1)
        ELSE IF is_zero(a) THEN res = b
        ELSE res = a

\* (-0) + (+0) = +0.
C5_Witness ==
  /\ op = "operator+"
  /\ args = <<SignedZero(-1), SignedZero(1)>>
  /\ res = SignedZero(1)

---------------------------------------------------------------------------
(* C6: operator*. *)

ProductOutOfRange ==
  BothNormal /\ (\/ ExpOf(ExactProduct, 2 * LowExp) > kMaxExp
                 \/ ExpOf(ExactProduct, 2 * LowExp) < kMinExp)

\* What C6 says of a product with a zero, infinite or NaN operand, or whose
\* exponent is out of range: NaN for a NaN operand and for zero times
\* infinity, else the product of the signs, with infinity above kMaxExp and
\* zero below kMinExp.
C6_Common ==
  LET a == args[1]
      b == args[2]
  IN  IF is_nan(a) \/ is_nan(b) THEN is_nan(res)
      ELSE IF (is_zero(a) /\ is_inf(b)) \/ (is_inf(a) /\ is_zero(b))
           THEN is_nan(res)
      ELSE IF ~BothNormal
           THEN /\ res.sign = a.sign * b.sign
                /\ IF is_inf(a) \/ is_inf(b) THEN is_inf(res) ELSE is_zero(res)
      ELSE IF ExpOf(ExactProduct, 2 * LowExp) > kMaxExp
           THEN res = Infinity(a.sign * b.sign)
      ELSE IF ExpOf(ExactProduct, 2 * LowExp) < kMinExp
           THEN res = SignedZero(a.sign * b.sign)
      ELSE TRUE

\* C6 as claimed: the product of two normal operands whose exponent is in
\* range is the exact product, with the product of the signs.
C6_AsClaimed ==
  op = "operator*" =>
    /\ C6_Common
    /\ BothNormal /\ ~ProductOutOfRange =>
         /\ res.sign = args[1].sign * args[2].sign
         /\ is_normal(res)
         /\ IntVal2(res) = ExactProduct

\* C6 amended: the product of two normal operands whose exponent is in
\* range is the exact product, with the product of the signs, when its
\* mantissa has at most kMaxPrec bits, and NaN when it has more.
C6_ExactProduct ==
  op = "operator*" =>
    /\ C6_Common
    /\ BothNormal /\ ~ProductOutOfRange =>
         IF OddPrec(ExactProduct) > kMaxPrec THEN is_nan(res)
         ELSE /\ res.sign = args[1].sign * args[2].sign
              /\ is_normal(res)
              /\ IntVal2(res) = ExactProduct

\* An exact product of a negative and a positive operand with mantissas
\* other than 1.
C6_Witness ==
  /\ op = "operator*"
  /\ BothNormal
  /\ args[1].sign = -1
  /\ args[2].sign = 1
  /\ args[1].bn > 1
  /\ args[2].bn > 1
  /\ is_normal(res)
  /\ res.sign = -1

---------------------------------------------------------------------------
(* C7: operator< and operator==. *)

\* The place of a value that is not NaN in the order of the extended reals:
\* the infinities lie beyond every finite value.
Beyond == Pow2(kMaxExp - LowExp + 1)

Rank(x) == IF is_inf(x) THEN x.sign * Beyond ELSE IntVal(x)

NumericLess(a, b) == ~is_nan(a) /\ ~is_nan(b) /\ Rank(a) < Rank(b)

NumericEqual(a, b) == ~is_nan(a) /\ ~is_nan(b) /\ Rank(a) = Rank(b)

\* C7: operator< and operator== return the order of the real values: false
\* with a NaN operand, +0 == -0, and otherwise exactly one of a < b, a == b,
\* b < a, the one the numeric order gives.
C7_Order ==
  /\ op = "operator<" => bout = NumericLess(args[1], args[2])
  /\ op = "operator==" => bout = NumericEqual(args[1], args[2])
  /\ Len(args) = 2 =>
       LET a == args[1]
           b == args[2]
           n == (IF Less(a, b) THEN 1 ELSE 0) + (IF Equals(a, b) THEN 1 ELSE 0)
                + (IF Less(b, a) THEN 1 ELSE 0)
       IN  n = IF is_nan(a) \/ is_nan(b) THEN 0 ELSE 1

\* Two negative values with the same exp() and different bn_exp_, told
\* apart by their shifted mantissas.
C7_Witness ==
  /\ op = "operator<"
  /\ BothNormal
  /\ args[1].sign = -1
  /\ args[2].sign = -1
  /\ exp(args[1]) = exp(args[2])
  /\ args[1].bn_exp < args[2].bn_exp
  /\ bout = TRUE

---------------------------------------------------------------------------
(* C8: rounding to nearest. *)

TiesModes == {"kRoundTiesToEven", "kRoundTiesAwayFromZero"}

\* The number of low mantissa bits the rounding call discards.
RoundShift ==
  IF op = "RoundToMaxPrec" THEN prec(args[1]) - iarg
  ELSE iarg - args[1].bn_exp

\* A call that rounds a normal value to nearest and discards at least a bit.
RoundsToNearest ==
  /\ op \in {"RoundToMaxPrec", "RoundToPowerOf2"}
  /\ mode \in TiesModes
  /\ is_normal(args[1])
  /\ RoundShift > 0

Kept == args[1].bn \div Pow2(RoundShift)

Discarded == args[1].bn % Pow2(RoundShift)

Half == Pow2(RoundShift - 1)

IsTie == Discarded = Half

\* The kept mantissa the claim names: of the neighbours Kept and Kept + 1
\* the nearer one, and on a tie the even one or the larger one by the mode.
NearestKept ==
  IF IsTie
  THEN IF mode = "kRoundTiesToEven" /\ Kept % 2 = 0 THEN Kept ELSE Kept + 1
  ELSE IF Discarded > Half THEN Kept + 1 ELSE Kept

\* That neighbour over 2^LowExp, without its sign.
NearestMagnitude == NearestKept * Pow2(args[1].bn_exp + RoundShift - LowExp)

\* C8 as claimed: the result is the neighbour the claim names.
C8_AsClaimed ==
  RoundsToNearest =>
    IF NearestKept = 0 THEN is_zero(res)
    ELSE /\ is_normal(res)
         /\ IntVal(res) = args[1].sign * NearestMagnitude

\* C8 amended: the result is the neighbour the claim names, unless the
\* exponent of that neighbour is above kMaxExp: then it is the infinity with
\* the sign of the value.
C8_Nearest ==
  RoundsToNearest =>
    IF NearestKept = 0 THEN is_zero(res)
    ELSE IF ExpOf(NearestMagnitude, LowExp) > kMaxExp
         THEN res = Infinity(args[1].sign)
    ELSE /\ is_normal(res)
         /\ IntVal(res) = args[1].sign * NearestMagnitude

\* RoundToMaxPrec with kRoundTiesToEven on a tie whose lowest kept bit is 1:
\* the result is the neighbour above.
C8_Witness ==
  /\ RoundsToNearest
  /\ op = "RoundToMaxPrec"
  /\ mode = "kRoundTiesToEven"
  /\ IsTie
  /\ Kept % 2 = 1
  /\ is_normal(res)
  /\ Abs(IntVal(res)) > Abs(IntVal(args[1]))

---------------------------------------------------------------------------
(* C9: ToDouble. *)

\* The magnitude of a finite double or of zero, over 2^LowExp.
DblMagnitude(d) == d.m * Pow2(d.e - LowExp)

\* The least magnitude that rounds to infinity: the largest finite double
\* plus half a unit of its last place.
DblOverflow ==
  (Pow2(kDoubleMantissaBits) - 1) * Pow2(DblMaxE - LowExp)
    + Pow2(DblMaxE - LowExp - 1)

\* The double nearest to the exact value of x, on a tie the one with the
\* even mantissa, with the sign of x.
NearestDouble(x) ==
  IF is_nan(x) THEN DblNaN(x.sign)
  ELSE IF is_inf(x) THEN DblInf(x.sign)
  ELSE IF is_zero(x) THEN DblZero(x.sign)
  ELSE LET mag == Abs(IntVal(x))
           cands == { d \in FiniteDoubles : d.s = 1 } \cup { DblZero(1) }
           Dist(d) == Abs(mag - DblMagnitude(d))
           best == CHOOSE d \in cands : \A c \in cands :
                     \/ Dist(d) < Dist(c)
                     \/ Dist(d) = Dist(c) /\ (c = d \/ d.m % 2 = 0)
       IN  IF mag >= DblOverflow THEN DblInf(x.sign)
           ELSE [best EXCEPT !.s = x.sign]

\* C9 as claimed: ToDouble() returns the double nearest to the exact value,
\* ties to even, an infinity beyond the range of double, and the special
\* value with the sign of the ExactFloat for zero, infinity and NaN.
C9_AsClaimed == op = "ToDouble" => dout = NearestDouble(args[1])

---------------------------------------------------------------------------
(* C10: ExactFloat(int). *)

\* C10 as claimed: ExactFloat(int v) is exactly v, with the sign of v.
C10_AsClaimed ==
  op = "ExactFloat(int)" =>
    IF iarg = 0 THEN res = SignedZero(1)
    ELSE /\ is_normal(res)
         /\ res.sign = Sgn(iarg)
         /\ IntVal(res) = iarg * Pow2(-LowExp)

---------------------------------------------------------------------------
(* ExactFloat::ToStringWithMaxDigits (exactfloat.cc, 375-499).             *)
(* A std::string is a sequence of characters; the decimal digits of a      *)
(* BIGNUM are a sequence of the numbers 0..9, most significant first.      *)

\* The largest max_digits argument of the calls.
kMaxDigits == 3

\* The values formatted have bn_exp_ in -kMaxStrExp..kMaxStrExp.  Formatting
\* reads sign_, bn_exp_ and bn_ only and no exponent limit enters it; in the
\* source the integers of several decimal digits lie far inside the
\* exponent range, so the exponents here are not cut at the scaled kMaxExp.
kMaxStrExp == 5

\* BN_exp
RECURSIVE BN_exp(_, _)
BN_exp(b, k) == IF k <= 0 THEN 1 ELSE b * BN_exp(b, k - 1)

\* BN_bn2dec
RECURSIVE BN_bn2dec(_)
BN_bn2dec(n) ==
  IF n < 10 THEN <<n>> ELSE Append(BN_bn2dec(n \div 10), n % 10)

\* IncrementDecimalDigits (428-438): the loop from the last digit.
RECURSIVE IncrementDecimalDigits(_)
IncrementDecimalDigits(digits) ==
  IF digits = <<>> THEN <<1>>
  ELSE IF digits[Len(digits)] < 9
       THEN [digits EXCEPT ![Len(digits)] = @ + 1]
       ELSE Append(IncrementDecimalDigits(SubSeq(digits, 1, Len(digits) - 1)),
                   0)

\* digits->find_last_not_of('0') + 1
RECURSIVE FindLastNotOfZero(_)
FindLastNotOfZero(digits) ==
  IF digits = <<>> THEN 0
  ELSE IF digits[Len(digits)] # 0 THEN Len(digits)
       ELSE FindLastNotOfZero(SubSeq(digits, 1, Len(digits) - 1))

\* Lines 477-479: whether the kept digits are incremented.
RoundUpDecimal(all_digits, max) ==
  /\ all_digits[max + 1] >= 5
  /\ \/ all_digits[max] % 2 = 1
     \/ \E i \in (max + 2)..Len(all_digits) : all_digits[i] # 0

\* GetDecimalDigits (440-499): the digits and the returned base-10 exponent.
GetDecimalDigits(x, max) ==
  LET bn == IF x.bn_exp >= 0 THEN BN_lshift(x.bn, x.bn_exp)
            ELSE BN_exp(5, -x.bn_exp) * x.bn
      bn_exp10 == IF x.bn_exp >= 0 THEN 0 ELSE x.bn_exp
      all_digits == BN_bn2dec(bn)
      num_digits == Len(all_digits)
      kept == SubSeq(all_digits, 1, max)
      digits == IF num_digits <= max THEN all_digits
                ELSE IF RoundUpDecimal(all_digits, max)
                     THEN IncrementDecimalDigits(kept)
                     ELSE kept
      rounded_exp10 == IF num_digits <= max THEN bn_exp10
                       ELSE bn_exp10 + num_digits - max
      pos == FindLastNotOfZero(digits)
      stripped == SubSeq(digits, 1, pos)
  IN  [digits |-> stripped,
       exp10  |-> rounded_exp10 + (Len(digits) - pos) + Len(stripped)]

DigitChars == <<"0", "1", "2", "3", "4", "5", "6", "7", "8", "9">>

\* The characters of a sequence of digits.
Chars(digits) == [i \in 1..Len(digits) |-> DigitChars[digits[i] + 1]]

\* A run of n characters '0'.
Zeros(n) == [i \in 1..n |-> "0"]

\* absl::StrAppendFormat("e%+02d", n): the sign always, and the digits of n,
\* which with the sign fill the width of two.
FormatExponent(n) ==
  <<"e", IF n < 0 THEN "-" ELSE "+">> \o Chars(BN_bn2dec(Abs(n)))

\* ToStringWithMaxDigits (375-425).
ToStringWithMaxDigits(x, max) ==
  IF is_nan(x) THEN <<"n", "a", "n">>
  ELSE IF is_zero(x) THEN (IF x.sign < 0 THEN <<"-", "0">> ELSE <<"0">>)
  ELSE IF is_inf(x)
       THEN (IF x.sign < 0 THEN <<"-", "i", "n", "f">> ELSE <<"i", "n", "f">>)
  ELSE
    LET gd == GetDecimalDigits(x, max)
        digits == Chars(gd.digits)
        exp10 == gd.exp10
        minus == IF x.sign < 0 THEN <<"-">> ELSE <<>>
    IN  IF exp10 <= -4 \/ exp10 > max
        THEN minus \o <<digits[1]>>
               \o (IF Len(digits) > 1
                   THEN <<".">> \o SubSeq(digits, 2, Len(digits)) ELSE <<>>)
               \o FormatExponent(exp10 - 1)
        ELSE IF exp10 > 0
             THEN IF exp10 >= Len(digits)
                  THEN minus \o digits \o Zeros(exp10 - Len(digits))
                  ELSE minus \o SubSeq(digits, 1, exp10) \o <<".">>
                         \o SubSeq(digits, exp10 + 1, Len(digits))
             ELSE minus \o <<"0", ".">> \o Zeros(-exp10) \o digits

\* The values formatted: every sign, every odd mantissa of at most kMaxPrec
\* bits, every bn_exp_ of the range, and the zeros, infinities and NaNs.
StrValues ==
  { EF(s, e, m) : s \in {1, -1}, e \in (-kMaxStrExp)..kMaxStrExp,
                  m \in { n \in 1..(Pow2(kMaxPrec) - 1) : n % 2 = 1 } }
    \cup SpecialValues

\* The state outside the formatting call.
toStringRest == <<exactfloatVars, predicateVars, coderVars, uintVectorVars, containsVars, nestingVars, latlngVars, polylineVars>>

InitToString ==
  /\ PolylineIdle
  /\ LatLngIdle
  /\ NestingIdle
  /\ ContainsIdle
  /\ UintVectorIdle
  /\ CoderIdle
  /\ ExactFloatIdle
  /\ PredicateIdle
  /\ value \in StrValues
  /\ max_digits = 0
  /\ str = <<>>

CallToStringWithMaxDigits ==
  /\ max_digits = 0
  /\ \E max \in 1..kMaxDigits :
       /\ max_digits' = max
       /\ str' = ToStringWithMaxDigits(value, max)
  /\ UNCHANGED value
  /\ UNCHANGED toStringRest

\* The caller is done with the string, and formats the value again.
DropString ==
  /\ max_digits # 0
  /\ max_digits' = 0
  /\ str' = <<>>
  /\ UNCHANGED value
  /\ UNCHANGED toStringRest

NextToString ==
  \/ CallToStringWithMaxDigits
  \/ DropString

SpecToString == InitToString /\ [][NextToString]_vars

---------------------------------------------------------------------------
(* C11: ToStringWithMaxDigits rounds correctly.                            *)

\* The position of the first character c of string t, 0 when there is none.
IndexOf(t, c) ==
  IF \E i \in 1..Len(t) : t[i] = c
  THEN CHOOSE i \in 1..Len(t) : t[i] = c /\ \A j \in 1..(i - 1) : t[j] # c
  ELSE 0

\* The number a string of digit characters denotes; other characters are
\* skipped.
RECURSIVE DigitsValue(_)
DigitsValue(t) ==
  IF t = <<>> THEN 0
  ELSE LET c == t[Len(t)]
           front == DigitsValue(SubSeq(t, 1, Len(t) - 1))
       IN  IF \E d \in 0..9 : DigitChars[d + 1] = c
           THEN 10 * front + (CHOOSE d \in 0..9 : DigitChars[d + 1] = c)
           ELSE front

\* A decimal number n * 10^e with n not a multiple of 10 (or n = 0).
RECURSIVE Decimal(_, _)
Decimal(n, e) ==
  IF n # 0 /\ n % 10 = 0 THEN Decimal(n \div 10, e + 1) ELSE [n |-> n, e |-> e]

\* The magnitude a formatted string denotes, read as a decimal numeral with
\* an optional fraction and an optional exponent.
StringMagnitude(t) ==
  LET body == IF t[1] = "-" THEN Tail(t) ELSE t
      ePos == IndexOf(body, "e")
      mant == IF ePos = 0 THEN body ELSE SubSeq(body, 1, ePos - 1)
      expo == IF ePos = 0 THEN <<>> ELSE SubSeq(body, ePos + 1, Len(body))
      dot == IndexOf(mant, ".")
      frac == IF dot = 0 THEN 0 ELSE Len(mant) - dot
      e == IF expo = <<>> THEN 0
           ELSE IF expo[1] = "-" THEN -DigitsValue(expo) ELSE DigitsValue(expo)
  IN  Decimal(DigitsValue(mant), e - frac)

\* The magnitude of a normal x as the decimal n * 10^e, exactly.
DecimalMagnitude(x) ==
  IF x.bn_exp >= 0 THEN [n |-> x.bn * Pow2(x.bn_exp), e |-> 0]
  ELSE [n |-> x.bn * BN_exp(5, -x.bn_exp), e |-> x.bn_exp]

\* The number of decimal digits of n > 0.
RECURSIVE NumDigits(_)
NumDigits(n) == IF n < 10 THEN 1 ELSE 1 + NumDigits(n \div 10)

\* The magnitude of x correctly rounded to max significant decimal digits:
\* to the nearest number of max digits, and of two equally near ones to the
\* one whose last digit is even.
RoundedDecimal(x, max) ==
  LET v == DecimalMagnitude(x)
      drop == NumDigits(v.n) - max
      unit == BN_exp(10, drop)
      q == v.n \div unit
      r == v.n % unit
      up == 2 * r > unit \/ (2 * r = unit /\ q % 2 = 1)
  IN  IF drop <= 0 THEN Decimal(v.n, v.e)
      ELSE Decimal(IF up THEN q + 1 ELSE q, v.e + drop)

\* C11 as claimed: ToStringWithMaxDigits(max_digits) of a normal value
\* writes the sign of the value and the value's exact decimal digits when
\* there are at most max_digits of them, and otherwise the value correctly
\* rounded to max_digits significant digits, to nearest and ties to even.
C11_AsClaimed ==
  (max_digits # 0 /\ is_normal(value)) =>
    /\ (str[1] = "-") = (value.sign < 0)
    /\ StringMagnitude(str) = RoundedDecimal(value, max_digits)

---------------------------------------------------------------------------
(* The predicate cascade (s2predicates_internal.h, 81-88 and 120-126).     *)
(* The header declares the stages; their bodies are not among the sources  *)
(* and follow the specification: a triage stage in fixed precision with an *)
(* error bound, an exact stage, and symbolic perturbation.  A point is a   *)
(* triple of integer coordinates, so that the exact stage is integer       *)
(* arithmetic; the fixed-precision arithmetic of triage is the exact value *)
(* plus a rounding error that the error bound covers.                      *)

\* The largest coordinate of a point.
kMaxCoord == 1

\* The error bounds of the triage formulas: constants, one per predicate.
kMaxDetError == 1

kMaxDotError == 1

S2Points ==
  { <<x, y, z>> : x \in (-kMaxCoord)..kMaxCoord, y \in (-kMaxCoord)..kMaxCoord,
                  z \in (-kMaxCoord)..kMaxCoord } \ { <<0, 0, 0>> }

sgn(n) == IF n > 0 THEN 1 ELSE IF n < 0 THEN -1 ELSE 0

DotProd(a, b) == a[1] * b[1] + a[2] * b[2] + a[3] * b[3]

CrossProd(a, b) ==
  << a[2] * b[3] - a[3] * b[2],
     a[3] * b[1] - a[1] * b[3],
     a[1] * b[2] - a[2] * b[1] >>

\* The order of points: lexicographic in the coordinates.
PointLess(a, b) ==
  \/ a[1] < b[1]
  \/ a[1] = b[1] /\ a[2] < b[2]
  \/ a[1] = b[1] /\ a[2] = b[2] /\ a[3] < b[3]

\* The stages of a predicate, in the order they run: the sign of three
\* points has all three, the sign of a dot product has no degenerate case
\* to perturb and ends with the exact stage.
Stages(p) ==
  IF p = "SignDotProd" THEN <<"triage", "exact">>
  ELSE <<"triage", "exact", "symbolic">>

\* The error bound of the triage formula of predicate p.
ErrorBound(p) == IF p = "SignDotProd" THEN kMaxDotError ELSE kMaxDetError

\* The formula of predicate p on arguments x, in exact arithmetic.
Formula(p, x) ==
  IF p = "SignDotProd" THEN DotProd(x[1], x[2])
  ELSE DotProd(CrossProd(x[1], x[2]), x[3])

\* The values fixed-precision arithmetic can compute for the formula: the
\* rounding error is at most the error bound.
TriageValues(p, x) ==
  { Formula(p, x) + err : err \in (-ErrorBound(p))..ErrorBound(p) }

\* Triage compares without regard to the error bound.
TriageSignIgnoresBound(p, det) == sgn(det)

\* What triage returns for a computed value det: its sign when its magnitude
\* exceeds the error bound, else 0.
TriageSign(p, det) ==
  IF Abs(det) > ErrorBound(p) THEN sgn(det) ELSE 0

\* ExactSignDotProd: the sign of a.DotProd(b) in exact arithmetic.
ExactSignDotProd(a, b) == sgn(DotProd(a, b))

\* SymbolicallyPerturbedSign(a, b, c, b_cross_c), for a < b < c with
\* a.DotProd(b_cross_c) = 0: the sign of the first nonzero coefficient of
\* the determinant of the points displaced by infinitesimals, the later a
\* point in the order the larger its displacement.
SymbolicallyPerturbedSign(a, b, c, b_cross_c) ==
  LET terms == << sgn(b_cross_c[3]),
                  sgn(b_cross_c[2]),
                  sgn(b_cross_c[1]),
                  sgn(c[1] * a[2] - c[2] * a[1]),
                  sgn(c[1]),
                  -sgn(c[2]),
                  sgn(c[3] * a[1] - c[1] * a[3]),
                  sgn(c[3]),
                  sgn(a[1] * b[2] - a[2] * b[1]),
                  -sgn(b[1]),
                  sgn(b[2]),
                  sgn(a[1]),
                  1 >>
      first == CHOOSE i \in 1..Len(terms) :
                 terms[i] # 0 /\ \A j \in 1..(i - 1) : terms[j] = 0
  IN  terms[first]

\* The arguments sorted into the order of points by three exchanges, with
\* the sign of the permutation.
SortPoints(a, b, c) ==
  LET s1 == IF PointLess(b, a) THEN [a |-> b, b |-> a, c |-> c, perm_sign |-> -1]
            ELSE [a |-> a, b |-> b, c |-> c, perm_sign |-> 1]
      s2 == IF PointLess(s1.c, s1.b)
            THEN [s1 EXCEPT !.b = s1.c, !.c = s1.b, !.perm_sign = -s1.perm_sign]
            ELSE s1
  IN  IF PointLess(s2.b, s2.a)
      THEN [s2 EXCEPT !.a = s2.b, !.b = s2.a, !.perm_sign = -s2.perm_sign]
      ELSE s2

\* The exact stage loses the sign of the permutation that sorted the points.
ExactSignOfSorted(a, b, c, perturb) ==
  LET s == SortPoints(a, b, c)
      b_cross_c == CrossProd(s.b, s.c)
      det_sign == sgn(DotProd(s.a, b_cross_c))
  IN  IF det_sign = 0 /\ perturb /\ s.a # s.b /\ s.b # s.c
      THEN SymbolicallyPerturbedSign(s.a, s.b, s.c, b_cross_c)
      ELSE det_sign

\* ExactSign(a, b, c, perturb): the sign of the determinant of the sorted
\* points in exact arithmetic and, when it is zero and perturb is set, of
\* the perturbed determinant; times the sign of the permutation.  Points
\* that are identical are displaced identically and their determinant stays
\* zero.
ExactSign(a, b, c, perturb) ==
  LET s == SortPoints(a, b, c)
      b_cross_c == CrossProd(s.b, s.c)
      det_sign == sgn(DotProd(s.a, b_cross_c))
  IN  s.perm_sign *
        (IF det_sign = 0 /\ perturb /\ s.a # s.b /\ s.b # s.c
         THEN SymbolicallyPerturbedSign(s.a, s.b, s.c, b_cross_c)
         ELSE det_sign)

\* What the exact stage, and the symbolic stage, of predicate p returns.
ExactStageSign(p, x, perturb) ==
  IF p = "SignDotProd" THEN ExactSignDotProd(x[1], x[2])
  ELSE ExactSign(x[1], x[2], x[3], perturb)

\* The state outside the predicate invocation.
predicateRest == <<exactfloatVars, toStringVars, coderVars, uintVectorVars, containsVars, nestingVars, latlngVars, polylineVars>>

\* The arguments a predicate is invoked with.
Invocations ==
  { [pred |-> "Sign", points |-> <<a, b, c>>] :
      a \in S2Points, b \in S2Points, c \in S2Points }
  \cup { [pred |-> "SignDotProd", points |-> <<a, b>>] :
           a \in S2Points, b \in S2Points }

InitPredicates ==
  /\ PolylineIdle
  /\ LatLngIdle
  /\ NestingIdle
  /\ ContainsIdle
  /\ UintVectorIdle
  /\ CoderIdle
  /\ ExactFloatIdle
  /\ ToStringIdle
  /\ \E inv \in Invocations : pred = inv.pred /\ points = inv.points
  /\ stage = "call"
  /\ computed = 0
  /\ result = 0
  /\ ran = <<>>
  /\ returned = FALSE
  /\ prev = NoCall

\* A stage runs although the invocation has returned.
PendingAfterReturn(s) ==
  /\ s \in Range(Stages(pred))
  /\ stage = (IF s = "triage" THEN "call" ELSE IF s = "exact" THEN "triage"
              ELSE "exact")

\* Stage s is the one to run: the invocation has not returned and the stage
\* before s, if any, ran last.
Pending(s) ==
  /\ ~returned
  /\ s \in Range(Stages(pred))
  /\ stage = (IF s = "triage" THEN "call" ELSE IF s = "exact" THEN "triage"
              ELSE "exact")

\* Stage s has run and returned r: the invocation returns when r is
\* decisive or s is the last stage.
Ran(s, r) ==
  /\ stage' = s
  /\ result' = r
  /\ ran' = Append(ran, [stage |-> s, result |-> r])
  /\ returned' = (r # 0 \/ s = Stages(pred)[Len(Stages(pred))])
  /\ UNCHANGED <<pred, points, prev>>
  /\ UNCHANGED predicateRest

\* Stage 1: the formula in fixed precision, compared with its error bound.
Triage ==
  /\ Pending("triage")
  /\ \E det \in TriageValues(pred, points) :
       /\ computed' = det
       /\ Ran("triage", TriageSign(pred, det))

\* Stage 2: the formula in exact arithmetic.
Exact ==
  /\ Pending("exact")
  /\ computed' = 0
  /\ Ran("exact", ExactStageSign(pred, points, FALSE))

\* Stage 3: symbolic perturbation.
Symbolic ==
  /\ Pending("symbolic")
  /\ computed' = 0
  /\ Ran("symbolic", ExactStageSign(pred, points, TRUE))

\* The caller invokes Sign again with two of the arguments exchanged.
InvokeSwapped ==
  /\ returned
  /\ pred = "Sign"
  /\ prev = NoCall
  /\ \E i \in 1..3, j \in 1..3 :
       /\ i < j
       /\ points' = [points EXCEPT ![i] = points[j], ![j] = points[i]]
  /\ prev' = [points |-> points, result |-> result, stage |-> stage]
  /\ stage' = "call"
  /\ computed' = 0
  /\ result' = 0
  /\ ran' = <<>>
  /\ returned' = FALSE
  /\ UNCHANGED pred
  /\ UNCHANGED predicateRest

NextPredicates ==
  \/ Triage
  \/ Exact
  \/ Symbolic
  \/ InvokeSwapped

SpecPredicates == InitPredicates /\ [][NextPredicates]_vars

---------------------------------------------------------------------------
(* C12: an invocation is a linear pipeline.                                *)

\* C12: the stages of an invocation run in the fixed order triage, exact,
\* symbolic perturbation, each at most once; every stage before the last
\* one that ran was indeterminate, so no stage runs after a decisive one;
\* and the invocation has returned exactly when the stage that ran last
\* was decisive or was the last stage of the predicate, that stage being
\* its one exit point and its result the result returned.
C12_LinearPipeline ==
  pred # "none" =>
    /\ Len(ran) <= Len(Stages(pred))
    /\ \A i \in 1..Len(ran) : ran[i].stage = Stages(pred)[i]
    /\ \A i \in 1..(Len(ran) - 1) : ran[i].result = 0
    /\ returned <=>
         /\ ran # <<>>
         /\ \/ ran[Len(ran)].result # 0
            \/ Len(ran) = Len(Stages(pred))
    /\ ran # <<>> =>
         /\ stage = ran[Len(ran)].stage
         /\ result = ran[Len(ran)].result
         /\ stage \in {"triage", "exact", "symbolic"}

\* An invocation that all three stages ran in, decided by perturbation.
C12_Witness ==
  /\ pred = "Sign"
  /\ returned
  /\ Len(ran) = 3
  /\ stage = "symbolic"
  /\ result # 0

---------------------------------------------------------------------------
(* C13: the sign of three points is antisymmetric.                         *)

\* C13: when Sign has returned for three points and then for the same
\* points with two of them exchanged, the second result is the negation of
\* the first, whichever stage decided either invocation.
C13_Antisymmetric ==
  (pred = "Sign" /\ returned /\ prev # NoCall) => result = -prev.result

\* Two such invocations of collinear points, both decided by perturbation.
C13_Witness ==
  /\ pred = "Sign"
  /\ returned
  /\ prev # NoCall
  /\ prev.stage = "symbolic"
  /\ stage = "symbolic"
  /\ result = 1
  /\ prev.result = -1

---------------------------------------------------------------------------
(* C14: triage agrees with the exact stage.                                *)

\* C14: a nonzero result of the triage stage is the sign the exact function
\* returns for the same arguments, and triage returns 0 only when the
\* magnitude of the value it computed is within the error bound.
C14_TriageAgrees ==
  (pred # "none" /\ stage = "triage") =>
    /\ result # 0 => result = ExactStageSign(pred, points, FALSE)
    /\ result = 0 => Abs(computed) <= ErrorBound(pred)

\* TriageSignDotProd has returned a nonzero sign for a value that the
\* rounding error moved away from the exact dot product.
C14_Witness ==
  /\ pred = "SignDotProd"
  /\ stage = "triage"
  /\ result # 0
  /\ computed # DotProd(points[1], points[2])

---------------------------------------------------------------------------
(* Encoder::put_varint64_from_decoder (util/coding/coder.h, 403-497) and   *)
(* the code it stands for, Decoder::get_varint64 (624-633, with            *)
(* Varint::Parse64WithLimit, util/coding/varint.cc 229-292) followed by    *)
(* Encoder::put_varint64 (137-142, with Varint::Encode64, 32-54).          *)
(*                                                                         *)
(* The format is scaled down: a byte has two payload bits and the          *)
(* continuation bit (the source has seven and the bit 128), a varint64 has *)
(* at most kVarintMax64 bytes, and as in the source its last byte has room *)
(* for one bit only, so a uint64 has 2 * (kVarintMax64 - 1) + 1 bits.      *)
(* A pointer into a buffer is an offset from its start.                    *)

\* The continuation bit of a byte (128).
kContinuationBit == 4

\* The maximum number of bytes of a varint64 (Varint::kMax64, 10).
kVarintMax64 == 4

\* The largest decoder buffer and the largest encoder buffer.
kMaxDecoderBytes == 4

kMaxEncoderBytes == 4

Bytes == 0..(2 * kContinuationBit - 1)

\* The value of the varint of n bytes at offset pos of bytes: the payloads,
\* least significant first.
RECURSIVE VarintValue(_, _, _)
VarintValue(bytes, pos, n) ==
  IF n = 0 THEN 0
  ELSE (bytes[pos + 1] % kContinuationBit)
         + kContinuationBit * VarintValue(bytes, pos + 1, n - 1)

\* Varint::Parse64 at pos, where kVarintMax64 bytes can be read: the number
\* of bytes of the varint, 0 when the value is too long to be a varint64.
\* i bytes have been read and had the continuation bit.
RECURSIVE Parse64(_, _, _)
Parse64(bytes, pos, i) ==
  LET byte == bytes[pos + i + 1]
  IN  IF i = kVarintMax64 - 1 THEN (IF byte < 2 THEN i + 1 ELSE 0)
      ELSE IF byte < kContinuationBit THEN i + 1
      ELSE Parse64(bytes, pos, i + 1)

\* The other branch of Parse64WithLimit (239-291): the same with a test
\* against the limit before every byte.
RECURSIVE Parse64Limited(_, _, _)
Parse64Limited(bytes, pos, i) ==
  IF pos + i >= Len(bytes) THEN 0
  ELSE LET b == bytes[pos + i + 1]
       IN  IF i = kVarintMax64 - 1 THEN (IF b < 2 THEN i + 1 ELSE 0)
           ELSE IF b < kContinuationBit THEN i + 1
           ELSE Parse64Limited(bytes, pos, i + 1)

\* Varint::Parse64WithLimit: the offset after the varint and its value, or
\* ok = FALSE for nullptr.
Parse64WithLimit(bytes, pos) ==
  LET n == IF pos + kVarintMax64 <= Len(bytes) THEN Parse64(bytes, pos, 0)
           ELSE Parse64Limited(bytes, pos, 0)
  IN  IF n = 0 THEN [ok |-> FALSE, r |-> pos, OUTPUT |-> 0]
      ELSE [ok |-> TRUE, r |-> pos + n, OUTPUT |-> VarintValue(bytes, pos, n)]

\* Decoder::get_varint64: whether it returned true, the read position
\* afterwards and the value read.
get_varint64(bytes, pos) ==
  LET p == Parse64WithLimit(bytes, pos)
  IN  [ret |-> p.ok, buf_ |-> (IF p.ok THEN p.r ELSE pos), v |-> p.OUTPUT]

\* Varint::Encode64: the bytes written for v.
RECURSIVE Encode64(_)
Encode64(v) ==
  IF v < kContinuationBit THEN <<v>>
  ELSE <<(v % kContinuationBit) + kContinuationBit>>
         \o Encode64(v \div kContinuationBit)

\* Varint::Length64
Length64(v) == Len(Encode64(v))

\* The code put_varint64_from_decoder is documented to implement (146-151,
\* 455-460), for a decoder at pos and the bytes enc encoded so far: what it
\* returns, the decoder's position and the encoder's bytes afterwards.
ReferenceCode(bytes, pos, enc) ==
  LET g == get_varint64(bytes, pos)
  IN  IF ~g.ret THEN [ret |-> FALSE, dec_pos |-> g.buf_, enc_buf |-> enc]
      ELSE [ret |-> TRUE, dec_pos |-> g.buf_, enc_buf |-> enc \o Encode64(g.v)]

\* What a call did: what it returned and by how many bytes it moved the
\* decoder's buf_ and the encoder's buf_.
Copied(n) == [ret |-> TRUE, dec |-> n, enc |-> n]

NotCopied == [ret |-> FALSE, dec |-> 0, enc |-> 0]

\* The unrolled tests of the fast path (411-431): dec_ptr[2] < 128 copies 3
\* bytes, ..., and the last byte must be below 2.  n is the size tested.
RECURSIVE CopyKnownSize(_, _, _)
CopyKnownSize(bytes, pos, n) ==
  IF n = kVarintMax64 THEN (IF bytes[pos + n] < 2 THEN Copied(n) ELSE NotCopied)
  ELSE IF bytes[pos + n] < kContinuationBit THEN Copied(n)
  ELSE CopyKnownSize(bytes, pos, n + 1)

\* The loop of lines 441-448, n bytes copied so far: avail is the room of
\* the encoder.
RECURSIVE CopyByteByByte(_, _, _, _)
CopyByteByByte(bytes, pos, avail, n) ==
  IF pos + n >= Len(bytes) THEN NotCopied
  ELSE IF n >= avail THEN NotCopied
  ELSE IF bytes[pos + n + 1] >= kContinuationBit
       THEN CopyByteByByte(bytes, pos, avail, n + 1)
       ELSE Copied(n + 1)

\* Encoder::PutVarint64FromDecoderLessCommonSizes (403-453).
PutVarint64FromDecoderLessCommonSizes(bytes, pos, avail) ==
  IF pos <= Len(bytes) - kVarintMax64 /\ 0 <= avail - kVarintMax64
  THEN CopyKnownSize(bytes, pos, 3)
  ELSE CopyByteByByte(bytes, pos, avail, 0)

\* The one-byte case moves the decoder before it tests the encoder's room.
put_varint64_from_decoderMovesFirst(bytes, pos, avail) ==
  IF pos < Len(bytes) /\ bytes[pos + 1] < kContinuationBit
  THEN IF avail <= 0 THEN [ret |-> FALSE, dec |-> 1, enc |-> 0] ELSE Copied(1)
  ELSE IF pos < Len(bytes) - 1 /\ bytes[pos + 2] < kContinuationBit
       THEN IF avail <= 1 THEN NotCopied ELSE Copied(2)
       ELSE PutVarint64FromDecoderLessCommonSizes(bytes, pos, avail)

\* Encoder::put_varint64_from_decoder (469-497), for a decoder at pos and an
\* encoder with room for avail bytes.
put_varint64_from_decoder(bytes, pos, avail) ==
  IF pos < Len(bytes) /\ bytes[pos + 1] < kContinuationBit
  THEN IF avail <= 0 THEN NotCopied ELSE Copied(1)
  ELSE IF pos < Len(bytes) - 1 /\ bytes[pos + 2] < kContinuationBit
       THEN IF avail <= 1 THEN NotCopied ELSE Copied(2)
       ELSE PutVarint64FromDecoderLessCommonSizes(bytes, pos, avail)

\* Encoder::avail
EncoderAvail == enc_capacity - Len(enc_buf)

\* The buffers a decoder is made on.
RECURSIVE Buffers(_)
Buffers(n) ==
  IF n = 0 THEN { <<>> }
  ELSE LET shorter == Buffers(n - 1)
       IN  shorter \cup { Append(b, c) : b \in { x \in shorter : Len(x) = n - 1 },
                                        c \in Bytes }

\* The state outside the coder.
coderRest == <<exactfloatVars, toStringVars, predicateVars, uintVectorVars, containsVars, nestingVars, latlngVars, polylineVars>>

InitCoder ==
  /\ PolylineIdle
  /\ LatLngIdle
  /\ NestingIdle
  /\ ContainsIdle
  /\ UintVectorIdle
  /\ ExactFloatIdle
  /\ ToStringIdle
  /\ PredicateIdle
  /\ dec_buf \in Buffers(kMaxDecoderBytes)
  /\ dec_pos = 0
  /\ enc_buf = <<>>
  /\ enc_capacity \in 0..kMaxEncoderBytes
  /\ coder_call = "none"
  /\ coder_ret = FALSE
  /\ coder_before = NoCoderCall

CallPutVarint64FromDecoder ==
  LET r == put_varint64_from_decoder(dec_buf, dec_pos, EncoderAvail)
  IN  /\ coder_call' = "put_varint64_from_decoder"
      /\ coder_before' = [dec_pos |-> dec_pos, enc_buf |-> enc_buf]
      /\ coder_ret' = r.ret
      /\ dec_pos' = dec_pos + r.dec
      /\ enc_buf' = enc_buf \o SubSeq(dec_buf, dec_pos + 1, dec_pos + r.enc)
      /\ UNCHANGED <<dec_buf, enc_capacity>>
      /\ UNCHANGED coderRest

\* The documented code itself, called where put_varint64 has the room it
\* asserts (139-140).
CallGetAndPutVarint64 ==
  LET r == ReferenceCode(dec_buf, dec_pos, enc_buf)
  IN  /\ r.ret => \/ EncoderAvail >= kVarintMax64
                  \/ Len(r.enc_buf) <= enc_capacity
      /\ coder_call' = "get_varint64, put_varint64"
      /\ coder_before' = [dec_pos |-> dec_pos, enc_buf |-> enc_buf]
      /\ coder_ret' = r.ret
      /\ dec_pos' = r.dec_pos
      /\ enc_buf' = r.enc_buf
      /\ UNCHANGED <<dec_buf, enc_capacity>>
      /\ UNCHANGED coderRest

NextCoder ==
  \/ CallPutVarint64FromDecoder
  \/ CallGetAndPutVarint64

SpecCoder == InitCoder /\ [][NextCoder]_vars

---------------------------------------------------------------------------
(* C15: a failed put_varint64_from_decoder changes nothing.                *)

\* C15: when put_varint64_from_decoder has returned false, the decoder's
\* read position and the encoder's length are what they were at the call.
C15_FailureChangesNothing ==
  (coder_call = "put_varint64_from_decoder" /\ ~coder_ret) =>
    /\ dec_pos = coder_before.dec_pos
    /\ Len(enc_buf) = Len(coder_before.enc_buf)

\* A call that failed after the loop had copied a byte: the decoder holds a
\* complete varint of two bytes or more and the encoder has room for its
\* first byte but not for all of it.
C15_Witness ==
  /\ coder_call = "put_varint64_from_decoder"
  /\ ~coder_ret
  /\ get_varint64(dec_buf, dec_pos).ret
  /\ EncoderAvail >= 1
  /\ dec_buf[dec_pos + 1] >= kContinuationBit
  /\ dec_pos > 0

---------------------------------------------------------------------------
(* C16: put_varint64_from_decoder against the code it is documented as.   *)

\* C16 as claimed: when the encoder had room for a varint64, the call
\* returned what get_varint64 followed by put_varint64 returns from the
\* same state, and left the decoder's position and the encoder's bytes as
\* that code leaves them.
C16_AsClaimed ==
  (/\ coder_call = "put_varint64_from_decoder"
   /\ enc_capacity - Len(coder_before.enc_buf) >= kVarintMax64) =>
    LET r == ReferenceCode(dec_buf, coder_before.dec_pos, coder_before.enc_buf)
    IN  /\ coder_ret = r.ret
        /\ dec_pos = r.dec_pos
        /\ enc_buf = r.enc_buf

---------------------------------------------------------------------------
(* EncodedUintVector (encoded_uint_vector.h), for T = uint32_t. The bytes  *)
(* are those of the coder above, 2 * kContinuationBit values each, so T    *)
(* has kSizeofT of them; size_t and uint64_t hold what a varint64 holds;   *)
(* uint32_t, the type of size_, is scaled down to kSizeBits bits.          *)

kSizeofT == 4
kSizeBits == 2
kMaxVectorSize == 4

\* The number of bits of a byte.
kByteBits == BN_num_bits(2 * kContinuationBit - 1)

\* 256 ** n, for the bytes of this model.
RECURSIVE ByteShift(_)
ByteShift(n) == IF n <= 0 THEN 1 ELSE 2 * kContinuationBit * ByteShift(n - 1)

\* std::numeric_limits<size_t>::max(): the largest value of a varint64.
RECURSIVE SizeTMaxOf(_)
SizeTMaxOf(n) ==
  IF n = 1 THEN 1 ELSE kContinuationBit * SizeTMaxOf(n - 1) + kContinuationBit - 1

kSizeTMax == SizeTMaxOf(kVarintMax64)

\* (length & bit) != 0 for a power of two.
HasBit(length, bit) == (length \div bit) % 2 = 1

\* EncodeUintWithLength (141-152): the low "length" bytes, lowest first.
RECURSIVE EncodeUintWithLength(_, _)
EncodeUintWithLength(x, length) ==
  IF length <= 0 THEN <<>>
  ELSE <<x % (2 * kContinuationBit)>>
         \o EncodeUintWithLength(x \div (2 * kContinuationBit), length - 1)

\* UNALIGNED_LOAD16 / 32 / 64 on a little-endian machine: n bytes from
\* offset ptr.
RECURSIVE UNALIGNED_LOAD(_, _, _)
UNALIGNED_LOAD(bytes, ptr, n) ==
  IF n = 0 THEN 0
  ELSE bytes[ptr + 1] + 2 * kContinuationBit * UNALIGNED_LOAD(bytes, ptr + 1, n - 1)

\* GetUintWithLength: the lowest byte only. It differs from the code in
\* every element of two bytes or more.
GetUintWithLengthLowByte(bytes, ptr, length) ==
  IF length = 0 THEN 0 ELSE bytes[ptr + 1]

\* GetUintWithLength (154-198): a full load when length = sizeof(T), else
\* the pieces of 4, 2 and 1 bytes from the top down.
GetUintWithLength(bytes, ptr, length) ==
  IF HasBit(length, kSizeofT) THEN UNALIGNED_LOAD(bytes, ptr, kSizeofT)
  ELSE
    LET end == ptr + length
        p4 == IF kSizeofT > 4 /\ HasBit(length, 4) THEN end - 4 ELSE end
        x4 == IF kSizeofT > 4 /\ HasBit(length, 4)
              THEN UNALIGNED_LOAD(bytes, p4, 4) ELSE 0
        p2 == IF kSizeofT > 2 /\ HasBit(length, 2) THEN p4 - 2 ELSE p4
        x2 == IF kSizeofT > 2 /\ HasBit(length, 2)
              THEN x4 * ByteShift(2) + UNALIGNED_LOAD(bytes, p2, 2) ELSE x4
        p1 == IF kSizeofT > 1 /\ HasBit(length, 1) THEN p2 - 1 ELSE p2
    IN  IF kSizeofT > 1 /\ HasBit(length, 1)
        THEN x2 * ByteShift(1) + bytes[p1 + 1] ELSE x2

\* The bitwise or of the elements with 1 (216-217). Or(x, y) is x | y.
RECURSIVE Or(_, _)
Or(x, y) ==
  IF x = 0 THEN y ELSE IF y = 0 THEN x
  ELSE Max(x % 2, y % 2) + 2 * Or(x \div 2, y \div 2)

RECURSIVE OneBits(_)
OneBits(v) == IF v = <<>> THEN 1 ELSE Or(Head(v), OneBits(Tail(v)))

RECURSIVE EncodeElements(_, _)
EncodeElements(v, len) ==
  IF v = <<>> THEN <<>>
  ELSE EncodeUintWithLength(Head(v), len) \o EncodeElements(Tail(v), len)

\* EncodeUintVector (209-232): the bytes appended to the encoder.
EncodeUintVector(v) ==
  LET len == ((BN_num_bits(OneBits(v)) - 1) \div kByteBits) + 1
      size_len == Or((Len(v) * kSizeofT) % (kSizeTMax + 1), len - 1)
  IN  Encode64(size_len) \o EncodeElements(v, len)

\* EncodedUintVector::Init (234-246) on a decoder at pos: what it returns
\* and the fields and the decoder position it leaves.
InitVector(bytes, pos) ==
  LET g == get_varint64(bytes, pos)
      size == (g.v \div kSizeofT) % Pow2(kSizeBits)
      len == (g.v % kSizeofT) + 1
      nbytes == size * len
      failed(at, s, l) ==
        [ret |-> FALSE, pos |-> at, data_ |-> 0, size_ |-> s, len_ |-> l]
  IN  IF ~g.ret THEN failed(g.buf_, 0, 0)
      ELSE IF size > kSizeTMax \div kSizeofT THEN failed(g.buf_, size, len)
      ELSE IF Len(bytes) - g.buf_ < nbytes THEN failed(g.buf_, size, len)
      ELSE [ret |-> TRUE, pos |-> g.buf_ + nbytes, data_ |-> g.buf_,
            size_ |-> size, len_ |-> len]

\* operator[] (259-263).
At(bytes, data, len, i) == GetUintWithLength(bytes, data + i * len, len)

\* lower_bound<length> (288-301): the binary search.
RECURSIVE LowerBoundLoop(_, _, _, _, _, _)
LowerBoundLoop(bytes, data, length, target, lo, hi) ==
  IF lo < hi
  THEN LET mid == (lo + hi) \div 2
           x == GetUintWithLength(bytes, data + mid * length, length)
       IN  IF x < target
           THEN LowerBoundLoop(bytes, data, length, target, mid + 1, hi)
           ELSE LowerBoundLoop(bytes, data, length, target, lo, mid)
  ELSE lo

\* lower_bound (265-286): every case of the switch calls the loop with
\* length = len_.
lower_bound(bytes, data, size, len, target) ==
  LowerBoundLoop(bytes, data, IF len <= 7 THEN len ELSE 8, target, 0, size)

\* Decode (303-310).
Decode(bytes, data, size, len) == [i \in 1..size |-> At(bytes, data, len, i - 1)]

\* The elements the vectors are made of: 0, the largest value of one byte
\* and of T, and for every number of bytes a value whose bytes all differ.
UintValues ==
  {0, ByteShift(1) - 1, ByteShift(kSizeofT) - 1}
    \cup {UNALIGNED_LOAD(<<1, 2, 3, 5>>, 0, n) : n \in 1..kSizeofT}

Vectors == UNION {[1..n -> UintValues] : n \in 0..kMaxVectorSize}

\* The targets of lower_bound: the elements and their neighbours.
Targets ==
  {t \in UNION {{x - 1, x, x + 1} : x \in UintValues} :
     t >= 0 /\ t < ByteShift(kSizeofT)}

IsSorted(v) == \A i \in 1..(Len(v) - 1) : v[i] <= v[i + 1]

uintVectorRest == <<exactfloatVars, toStringVars, predicateVars, coderVars, containsVars, nestingVars, latlngVars, polylineVars>>

InitUintVector ==
  /\ PolylineIdle
  /\ LatLngIdle
  /\ NestingIdle
  /\ ContainsIdle
  /\ ExactFloatIdle
  /\ ToStringIdle
  /\ PredicateIdle
  /\ CoderIdle
  /\ uv_v \in Vectors
  /\ uv_encoded = <<>>
  /\ uv_pos = 0
  /\ data_ = 0
  /\ size_ = 0
  /\ len_ = 0
  /\ uv_call = "none"
  /\ uv_arg = 0
  /\ uv_result = 0

\* EncodeUintVector(uv_v, encoder) on an empty encoder.
CallEncodeUintVector ==
  /\ uv_call = "none"
  /\ uv_encoded' = EncodeUintVector(uv_v)
  /\ uv_call' = "EncodeUintVector"
  /\ UNCHANGED <<uv_v, uv_pos, data_, size_, len_, uv_arg, uv_result>>
  /\ UNCHANGED uintVectorRest

\* Init on a decoder over the bytes written.
CallInit ==
  /\ uv_call = "EncodeUintVector"
  /\ LET r == InitVector(uv_encoded, 0)
     IN  /\ uv_result' = r.ret
         /\ uv_pos' = r.pos
         /\ data_' = r.data_
         /\ size_' = r.size_
         /\ len_' = r.len_
  /\ uv_call' = "Init"
  /\ UNCHANGED <<uv_v, uv_encoded, uv_arg>>
  /\ UNCHANGED uintVectorRest

\* The vector is usable once Init has returned true.
Initialized ==
  \/ uv_call = "Init" /\ uv_result = TRUE
  \/ uv_call \in {"operator[]", "lower_bound", "Decode"}

\* (*this)[i], for an index its DCHECK allows (261).
CallIndex ==
  /\ Initialized
  /\ \E i \in 0..(size_ - 1) :
       /\ uv_arg' = i
       /\ uv_result' = At(uv_encoded, data_, len_, i)
  /\ uv_call' = "operator[]"
  /\ UNCHANGED <<uv_v, uv_encoded, uv_pos, data_, size_, len_>>
  /\ UNCHANGED uintVectorRest

\* lower_bound(target) on a vector whose elements are sorted (88-91).
CallLowerBound ==
  /\ Initialized
  /\ IsSorted(uv_v)
  /\ \E target \in Targets :
       /\ uv_arg' = target
       /\ uv_result' = lower_bound(uv_encoded, data_, size_, len_, target)
  /\ uv_call' = "lower_bound"
  /\ UNCHANGED <<uv_v, uv_encoded, uv_pos, data_, size_, len_>>
  /\ UNCHANGED uintVectorRest

CallDecode ==
  /\ Initialized
  /\ uv_arg' = 0
  /\ uv_result' = Decode(uv_encoded, data_, size_, len_)
  /\ uv_call' = "Decode"
  /\ UNCHANGED <<uv_v, uv_encoded, uv_pos, data_, size_, len_>>
  /\ UNCHANGED uintVectorRest

NextUintVector ==
  \/ CallEncodeUintVector
  \/ CallInit
  \/ CallIndex
  \/ CallLowerBound
  \/ CallDecode

SpecUintVector == InitUintVector /\ [][NextUintVector]_vars

---------------------------------------------------------------------------
(* C17: the round trip through EncodeUintVector and Init.                  *)

\* C17 as claimed: after EncodeUintVector(v) and Init on the bytes written,
\* Init has returned true and consumed exactly those bytes, size() is
\* v.size(), every (*this)[i] is v[i] and Decode() is v.
C17_AsClaimed ==
  /\ uv_call = "Init" =>
       /\ uv_result = TRUE
       /\ uv_pos = Len(uv_encoded)
       /\ size_ = Len(uv_v)
  /\ uv_call = "operator[]" => uv_result = uv_v[uv_arg + 1]
  /\ uv_call = "Decode" => uv_result = uv_v

\* The round trip holds for every vector whose size fits size_.
C17_WithinSize == Len(uv_v) < Pow2(kSizeBits) => C17_AsClaimed

---------------------------------------------------------------------------
(* C18: lower_bound on a sorted vector.                                    *)

\* The smallest index whose element is at least target, else the size.
FirstAtLeast(v, target) ==
  LET at == {i \in 1..Len(v) : v[i] >= target}
  IN  IF at = {} THEN Len(v)
      ELSE (CHOOSE i \in at : \A j \in at : i <= j) - 1

\* C18: lower_bound(target) on a vector encoded from sorted elements has
\* returned the smallest i with (*this)[i] >= target, or size() when there
\* is none, whatever the byte length of the elements and the target.
C18_LowerBound ==
  uv_call = "lower_bound" =>
    /\ uv_result = FirstAtLeast(Decode(uv_encoded, data_, size_, len_), uv_arg)
    /\ \A i \in 0..(size_ - 1) :
         (At(uv_encoded, data_, len_, i) >= uv_arg) = (i >= uv_result)

\* A search among elements of three bytes, which GetUintWithLength reads in
\* two pieces, that ended strictly inside the vector.
C18_Witness ==
  /\ uv_call = "lower_bound"
  /\ len_ = 3
  /\ size_ >= 3
  /\ uv_result > 0
  /\ uv_result < size_
  /\ uv_v[uv_result] < uv_arg
  /\ uv_v[uv_result + 1] > uv_arg

---------------------------------------------------------------------------
(* S2ContainsPointQuery::ShapeContains (s2contains_point_query.h). Points  *)
(* are identified by a number; an edge carries, besides its endpoints,     *)
(* what the geometry decides: whether it counts as crossed by the segment  *)
(* from the cell center to p. The clipped shape of the cell located for p  *)
(* holds every edge of the shape that has p as an endpoint (the index      *)
(* clips an edge to every cell it meets; VisitIncidentEdges, 238-262,      *)
(* relies on the same).                                                    *)

kMaxPointId == 3
kMaxShapeEdges == 2

PointIds == 0..kMaxPointId

\* S2CopyingEdgeCrosser::CrossingSign of AB against the edge: 0 when two
\* vertices of different edges are the same, else -1 when one of the edges
\* is degenerate, else +1 for a crossing and -1 for none.
CrossingSign(a, b, edge) ==
  IF a = edge.v0 \/ a = edge.v1 \/ b = edge.v0 \/ b = edge.v1 THEN 0
  ELSE IF a = b \/ edge.v0 = edge.v1 THEN -1
  ELSE IF edge.crossed THEN 1 ELSE -1

\* S2::VertexCrossing for two edges that share a vertex: false when one of
\* them is degenerate, else what the geometry decides.
VertexCrossing(a, b, edge) ==
  IF a = b \/ edge.v0 = edge.v1 THEN FALSE ELSE edge.crossed

\* ShapeContains with the two vertex tests of 291-299 exchanged: the answer
\* at a vertex is that of the other model.
RECURSIVE ShapeContainsLoopInverted(_, _, _, _, _, _)
ShapeContainsLoopInverted(model, edges, a, p, i, inside) ==
  IF i > Len(edges) THEN inside
  ELSE
    LET edge == edges[i]
        sign == CrossingSign(a, p, edge)
    IN  IF sign < 0
        THEN ShapeContainsLoopInverted(model, edges, a, p, i + 1, inside)
        ELSE IF sign = 0 /\ model # "SEMI_OPEN" /\ (edge.v0 = p \/ edge.v1 = p)
        THEN model = "OPEN"
        ELSE LET crossing == IF sign = 0 THEN VertexCrossing(a, p, edge)
                             ELSE TRUE
             IN  ShapeContainsLoopInverted(model, edges, a, p, i + 1,
                                           inside # crossing)

\* The loop of ShapeContains (288-302) from edge i on.
RECURSIVE ShapeContainsLoop(_, _, _, _, _, _)
ShapeContainsLoop(model, edges, a, p, i, inside) ==
  IF i > Len(edges) THEN inside
  ELSE
    LET edge == edges[i]
        sign == CrossingSign(a, p, edge)
    IN  IF sign < 0
        THEN ShapeContainsLoop(model, edges, a, p, i + 1, inside)
        ELSE IF sign = 0 /\ model # "SEMI_OPEN" /\ (edge.v0 = p \/ edge.v1 = p)
        THEN model = "CLOSED"
        ELSE LET crossing == IF sign = 0 THEN VertexCrossing(a, p, edge)
                             ELSE TRUE
             IN  ShapeContainsLoop(model, edges, a, p, i + 1, inside # crossing)

\* ShapeContains (274-305).
ShapeContains(model, s, inside, a, p) ==
  IF Len(s.edges) > 0
  THEN IF ~s.has_interior /\ model # "CLOSED" THEN FALSE
       ELSE ShapeContainsLoop(model, s.edges, a, p, 1, inside)
  ELSE inside

S2VertexModel == {"OPEN", "SEMI_OPEN", "CLOSED"}

ShapeEdges == [v0 : PointIds, v1 : PointIds, crossed : BOOLEAN]

ClippedShapes ==
  [has_interior : BOOLEAN,
   edges : UNION {[1..n -> ShapeEdges] : n \in 0..kMaxShapeEdges}]

\* Whether p is a vertex of the shape.
IsVertex(s, p) == \E i \in 1..Len(s.edges) : s.edges[i].v0 = p \/ s.edges[i].v1 = p

containsRest ==
  <<exactfloatVars, toStringVars, predicateVars, coderVars, uintVectorVars,
    nestingVars, latlngVars, polylineVars>>

\* The points are numbered so that the cell center is point 0 and p, when
\* it is another point, point 1.
InitContains ==
  /\ PolylineIdle
  /\ LatLngIdle
  /\ NestingIdle
  /\ ExactFloatIdle
  /\ ToStringIdle
  /\ PredicateIdle
  /\ CoderIdle
  /\ UintVectorIdle
  /\ vertex_model \in S2VertexModel
  /\ shape \in ClippedShapes
  /\ contains_center \in BOOLEAN
  /\ center = 0
  /\ query_p \in {0, 1}
  /\ cq_call = "none"
  /\ cq_result = FALSE

CallShapeContains ==
  /\ cq_call = "none"
  /\ cq_call' = "ShapeContains"
  /\ cq_result' = ShapeContains(vertex_model, shape, contains_center, center, query_p)
  /\ UNCHANGED <<vertex_model, shape, contains_center, center, query_p>>
  /\ UNCHANGED containsRest

NextContains == CallShapeContains

SpecContains == InitContains /\ [][NextContains]_vars

---------------------------------------------------------------------------
(* C19: ShapeContains at a vertex of the shape.                            *)

\* C19: ShapeContains on a point that is a vertex of the shape has returned
\* false under OPEN and true under CLOSED, whether or not the shape has an
\* interior.
C19_VertexModels ==
  (cq_call = "ShapeContains" /\ IsVertex(shape, query_p)) =>
    /\ vertex_model = "OPEN" => cq_result = FALSE
    /\ vertex_model = "CLOSED" => cq_result = TRUE

\* A polyline under CLOSED, with p at the far end of its second edge and a
\* first edge that the segment from the center crosses.
C19_Witness ==
  /\ cq_call = "ShapeContains"
  /\ vertex_model = "CLOSED"
  /\ ~shape.has_interior
  /\ ~contains_center
  /\ Len(shape.edges) = 2
  /\ CrossingSign(center, query_p, shape.edges[1]) = 1
  /\ shape.edges[2].v1 = query_p
  /\ shape.edges[2].v0 # query_p
  /\ cq_result = TRUE

---------------------------------------------------------------------------
(* C25: ShapeContains on a shape without interior.                         *)

\* C25 as claimed: for a shape without interior, whose clipped shape never
\* contains the cell center, ShapeContains has returned true only under
\* CLOSED and with p an endpoint of one of the edges in the cell.
C25_AsClaimed ==
  (cq_call = "ShapeContains" /\ ~shape.has_interior /\ ~contains_center
     /\ cq_result) =>
    /\ vertex_model = "CLOSED"
    /\ IsVertex(shape, query_p)

\* Whether the loop of ShapeContains toggles "inside" at the edge.
Toggles(a, b, edge) ==
  \/ CrossingSign(a, b, edge) > 0
  \/ CrossingSign(a, b, edge) = 0 /\ VertexCrossing(a, b, edge)

\* The result is as claimed for every shape without interior none of whose
\* edges in the cell the segment from the center to p crosses.
C25_NoCrossing ==
  (\A i \in 1..Len(shape.edges) : ~Toggles(center, query_p, shape.edges[i]))
    => C25_AsClaimed

---------------------------------------------------------------------------
(* S2ShapeNestingQuery::ComputeShapeNesting (s2shape_nesting_query.cc).    *)
(* The chains are closed curves that do not cross. An arrangement says for *)
(* every chain which chain is directly around it and whether its interior  *)
(* (its left side) is its inside; from it follow the answers of the        *)
(* geometry the function asks for: s2pred::OrderedCCW at the two ends of   *)
(* the segment from the datum chain to the target chain and the edges      *)
(* S2CrossingEdgeQuery finds crossing it.                                  *)

kMaxChains == 4

\* The default datum strategy: the first chain.
datum_shell == 0

ChainIds(n) == 0..(n - 1)

\* The chain reached from c by k steps outwards, -1 beyond the outermost.
RECURSIVE Outwards(_, _, _)
Outwards(encl, c, k) ==
  IF k = 0 \/ c = -1 THEN c ELSE Outwards(encl, encl[c], k - 1)

\* The arrangements of n chains: no chain is around itself.
Arrangements(n) ==
  {encl \in [ChainIds(n) -> -1..(n - 1)] :
     \A c \in ChainIds(n) : Outwards(encl, c, n) = -1}

\* The chains around c.
Around(encl, n, c) ==
  {x \in ChainIds(n) : \E k \in 1..n : Outwards(encl, c, k) = x}

\* The orientations of the chains of a polygon: the interior is on the left
\* of every chain, so the chains are oriented one way with an even number
\* of chains around them and the other way with an odd number.
Orientations(encl, n) ==
  {orientation \in [ChainIds(n) -> BOOLEAN] :
     \A c, x \in ChainIds(n) :
       (orientation[c] = orientation[x])
         = (Cardinality(Around(encl, n, c)) % 2 = Cardinality(Around(encl, n, x)) % 2)}

\* Whether chain c lies in the interior of chain x.
InInterior(encl, orientation, n, c, x) ==
  IF orientation[x] THEN x \in Around(encl, n, c) ELSE x \notin Around(encl, n, c)

\* The chains between the datum chain and chain t: around one of them only.
Between(encl, n, t) ==
  {x \in ChainIds(n) \ {datum_shell, t} :
     (x \in Around(encl, n, datum_shell)) # (x \in Around(encl, n, t))}

\* The ways the segment from the datum chain reaches a chain: whether it
\* starts into the inside of the datum chain, whether it arrives from the
\* inside of the target, or whether both ends are one shared vertex.
NoPath == [into |-> FALSE, from |-> FALSE, same |-> FALSE]

PathKinds ==
  {kind \in [into : BOOLEAN, from : BOOLEAN, same : BOOLEAN] :
     kind.same => ~kind.into /\ ~kind.from}

\* Two chains can share a vertex when no chain lies between them.
Paths(encl, n) ==
  {path \in [ChainIds(n) -> PathKinds] :
     \A t \in ChainIds(n) :
       /\ t = datum_shell => path[t] = NoPath
       /\ path[t].same => t # datum_shell /\ Between(encl, n, t) = {}}

\* s2pred::OrderedCCW(vertices[2], safe_end, vertices[0], start_point): the
\* segment to chain t starts into the interior of the datum chain.
StartsIntoInterior(encl, orientation, path, n, t) ==
  IF path[t].same THEN InInterior(encl, orientation, n, t, datum_shell)
  ELSE orientation[datum_shell] = path[t].into

\* s2pred::OrderedCCW(next, safe_start, prev, end_point): the segment
\* arrives from the interior of chain t.
EndsFromInterior(encl, orientation, path, n, t) ==
  IF path[t].same THEN InInterior(encl, orientation, n, datum_shell, t)
  ELSE orientation[t] = path[t].from

\* S2CrossingEdgeQuery::GetCrossingEdges, as the chains of the edges found:
\* a chain is crossed an odd number of times when the two ends of the
\* segment are on different sides of it.
CrossedChains(encl, path, n, t) ==
  {x \in ChainIds(n) :
     IF x = datum_shell THEN path[t].into # (x \in Around(encl, n, t))
     ELSE IF x = t THEN path[t].from # (x \in Around(encl, n, datum_shell))
     ELSE x \in Between(encl, n, t)}

\* Bitmap64::Toggle.
Toggle(bits, i) == IF i \in bits THEN bits \ {i} ELSE bits \cup {i}

Lowest(bits) == CHOOSE i \in bits : \A j \in bits : i <= j

\* The loop over the crossed edges (189-198), lowest chain first.
RECURSIVE ToggleEdges(_, _, _)
ToggleEdges(st, chain, edges) ==
  IF edges = {} THEN st
  ELSE
    LET other_chain == Lowest(edges)
        toggled ==
          [parents |-> [st.parents EXCEPT ![chain] = Toggle(@, other_chain)],
           children |->
             IF other_chain # chain
             THEN [st.children EXCEPT ![other_chain] = Toggle(@, chain)]
             ELSE st.children]
    IN  ToggleEdges(toggled, chain, edges \ {other_chain})

\* The body of the loop over the chains (134-208) for one chain.
ProcessChain(encl, orientation, path, n, st, chain) ==
  IF chain = datum_shell THEN st
  ELSE
    LET into == StartsIntoInterior(encl, orientation, path, n, chain)
        from == EndsFromInterior(encl, orientation, path, n, chain)
        s1 == IF into
              THEN [parents |-> [st.parents EXCEPT ![chain] = @ \cup {datum_shell}],
                    children |-> [st.children EXCEPT ![datum_shell] = @ \cup {chain}]]
              ELSE st
        s2 == IF from
              THEN [s1 EXCEPT !.parents[chain] = @ \cup {chain}]
              ELSE s1
        s3 == IF ~path[chain].same
              THEN ToggleEdges(s2, chain, CrossedChains(encl, path, n, chain))
              ELSE s2
        both == datum_shell \in s3.parents[chain] /\ chain \in s3.parents[chain]
        final == (IF both THEN s3.parents[chain] \cup {datum_shell}
                  ELSE s3.parents[chain] \ {datum_shell}) \ {chain}
    IN  [s3 EXCEPT !.parents[chain] = final]

RECURSIVE ProcessChains(_, _, _, _, _, _)
ProcessChains(encl, orientation, path, n, st, chain) ==
  IF chain >= n THEN st
  ELSE ProcessChains(encl, orientation, path, n,
                     ProcessChain(encl, orientation, path, n, st, chain), chain + 1)

\* The loop over the children of current_chain (229-239): the parent sets
\* and next_chain it leaves.
RECURSIVE RemoveFromChildren(_, _, _, _)
RemoveFromChildren(parents, kids, parent_chain, next_chain) ==
  IF kids = {} THEN [parents |-> parents, next_chain |-> next_chain]
  ELSE
    LET child == Lowest(kids)
        removed == [parents EXCEPT ![child] = @ \ {parent_chain}]
    IN  IF parent_chain \in parents[child]
        THEN RemoveFromChildren(
               removed, kids \ {child}, parent_chain,
               IF Cardinality(removed[child]) = 1 /\ child < next_chain
               THEN child ELSE next_chain)
        ELSE RemoveFromChildren(parents, kids \ {child}, parent_chain, next_chain)

\* The loop that leaves every chain its immediate parent (219-254).
RECURSIVE RemoveGrandparents(_, _, _, _)
RemoveGrandparents(parents, children, n, current_chain) ==
  IF current_chain >= n THEN parents
  ELSE IF Cardinality(parents[current_chain]) # 1
  THEN RemoveGrandparents(parents, children, n, current_chain + 1)
  ELSE
    LET parent_chain == Lowest(parents[current_chain])
        r == RemoveFromChildren(parents, children[current_chain], parent_chain,
                                current_chain)
    IN  RemoveGrandparents(r.parents, children, n, r.next_chain + 1)

\* The loop of 258-268: SetParent and AddHole.
RECURSIVE SetParents(_, _, _, _)
SetParents(parents, rel, n, chain) ==
  IF chain >= n THEN rel
  ELSE IF parents[chain] = {} THEN SetParents(parents, rel, n, chain + 1)
  ELSE
    LET parent == Lowest(parents[chain])
        set == [rel EXCEPT ![chain].parent_id = parent]
        added == [set EXCEPT ![parent].holes = Append(@, chain)]
    IN  SetParents(parents, added, n, chain + 1)

\* The do-while of 273-277.
RECURSIVE Depth(_, _, _, _)
Depth(rel, n, current, depth) ==
  LET up == rel[current].parent_id
  IN  IF up >= 0 /\ depth + 1 < n THEN Depth(rel, n, up, depth + 1)
      ELSE depth + 1

\* The loop of 272-282 detaching the chains of odd depth instead: the holes
\* of the outermost chain become shells.
RECURSIVE DetachOddDepths(_, _, _)
DetachOddDepths(rel, n, chain) ==
  IF chain >= n THEN rel
  ELSE
    LET depth == Depth(rel, n, chain, -1)
    IN  IF depth % 2 = 1
        THEN DetachOddDepths([rel EXCEPT ![chain].parent_id = -1], n, chain + 1)
        ELSE DetachOddDepths(rel, n, chain + 1)

\* The loop of 272-282: ClearParent for the chains of even depth.
RECURSIVE DetachEvenDepths(_, _, _)
DetachEvenDepths(rel, n, chain) ==
  IF chain >= n THEN rel
  ELSE
    LET depth == Depth(rel, n, chain, -1)
    IN  IF depth # 0 /\ depth % 2 = 0
        THEN DetachEvenDepths([rel EXCEPT ![chain].parent_id = -1], n, chain + 1)
        ELSE DetachEvenDepths(rel, n, chain + 1)

\* ChainRelation::MakeShell().
MakeShell == [parent_id |-> -1, holes |-> <<>>]

\* The parent sets after the two loops over the chains.
ImmediateParents(encl, orientation, path, n) ==
  LET none == [c \in ChainIds(n) |-> {}]
      st == ProcessChains(encl, orientation, path, n,
                          [parents |-> none, children |-> none], 0)
  IN  RemoveGrandparents(st.parents, st.children, n, 0)

\* ComputeShapeNesting (100-285).
ComputeShapeNesting(encl, orientation, path, n) ==
  IF n = 0 THEN << >>
  ELSE IF n = 1 THEN [c \in ChainIds(1) |-> MakeShell]
  ELSE
    LET parents == ImmediateParents(encl, orientation, path, n)
        rel == SetParents(parents, [c \in ChainIds(n) |-> MakeShell], n, 0)
    IN  DetachEvenDepths(rel, n, 0)

\* ChainRelation::is_shell and is_hole.
is_shell(relation) == relation.parent_id < 0

is_hole(relation) == ~is_shell(relation)

nestingRest ==
  <<exactfloatVars, toStringVars, predicateVars, coderVars, uintVectorVars,
    containsVars, latlngVars, polylineVars>>

InitNesting ==
  /\ PolylineIdle
  /\ LatLngIdle
  /\ ExactFloatIdle
  /\ ToStringIdle
  /\ PredicateIdle
  /\ CoderIdle
  /\ UintVectorIdle
  /\ ContainsIdle
  /\ num_chains \in 0..kMaxChains
  /\ enclosing \in Arrangements(num_chains)
  /\ ccw \in Orientations(enclosing, num_chains)
  /\ paths \in Paths(enclosing, num_chains)
  /\ nq_call = "none"
  /\ relations = <<>>

CallComputeShapeNesting ==
  /\ nq_call = "none"
  /\ nq_call' = "ComputeShapeNesting"
  /\ relations' = ComputeShapeNesting(enclosing, ccw, paths, num_chains)
  /\ UNCHANGED <<num_chains, enclosing, ccw, paths>>
  /\ UNCHANGED nestingRest

NextNesting == CallComputeShapeNesting

SpecNesting == InitNesting /\ [][NextNesting]_vars

\* The DCHECK of 260: no chain is left more than one parent.
AtMostOneParent ==
  num_chains >= 2 =>
    \A c \in ChainIds(num_chains) :
      Cardinality(ImmediateParents(enclosing, ccw, paths, num_chains)[c]) <= 1

---------------------------------------------------------------------------
(* C20: the relations ComputeShapeNesting returns.                         *)

InSeq(x, seq) == \E i \in 1..Len(seq) : seq[i] = x

\* C20: ComputeShapeNesting has returned one relation for every chain;
\* every chain is a shell or a hole and not both, every hole is among the
\* holes() of its parent, and every chain among the holes() of a shell has
\* that shell as its parent_id().
C20_Partition ==
  nq_call = "ComputeShapeNesting" =>
    /\ DOMAIN relations = ChainIds(num_chains)
    /\ \A c \in ChainIds(num_chains) :
         /\ is_shell(relations[c]) # is_hole(relations[c])
         /\ is_hole(relations[c]) =>
              /\ relations[c].parent_id \in ChainIds(num_chains)
              /\ InSeq(c, relations[relations[c].parent_id].holes)
         /\ is_shell(relations[c]) =>
              \A i \in 1..Len(relations[c].holes) :
                relations[relations[c].holes[i]].parent_id = c

\* Four chains, the datum chain inside another one: a chain that
\* ComputeShapeNesting detached from its parent has
\* a hole of its own.
C20_Witness ==
  /\ nq_call = "ComputeShapeNesting"
  /\ num_chains = kMaxChains
  /\ enclosing[datum_shell] # -1
  /\ \E c, h \in ChainIds(num_chains) :
       /\ c # datum_shell
       /\ is_shell(relations[c])
       /\ ImmediateParents(enclosing, ccw, paths, num_chains)[c] # {}
       /\ relations[c].holes = <<h>>
       /\ relations[h].parent_id = c

---------------------------------------------------------------------------
(* C26: holes() against parent_id() for every chain.                       *)

\* C26 as claimed: ComputeShapeNesting has returned relations where chain h
\* is among the holes() of chain c exactly when the parent_id() of h is c,
\* for shells and holes alike, and where every hole has no holes.
C26_AsClaimed ==
  nq_call = "ComputeShapeNesting" =>
    \A c \in ChainIds(num_chains) :
      /\ \A h \in ChainIds(num_chains) :
           InSeq(h, relations[c].holes) <=> relations[h].parent_id = c
      /\ is_hole(relations[c]) => relations[c].holes = <<>>

\* The two directions that hold: a chain with a parent_id() is among the
\* holes() of that parent, and the holes() of a shell are its holes.
C26_ForShells ==
  nq_call = "ComputeShapeNesting" =>
    \A c, h \in ChainIds(num_chains) :
      /\ relations[h].parent_id = c => InSeq(h, relations[c].holes)
      /\ (is_shell(relations[c]) /\ InSeq(h, relations[c].holes))
           => relations[h].parent_id = c

---------------------------------------------------------------------------
(* S2LatLng::Normalized (s2latlng.cc). An angle in radians is a double: a  *)
(* finite one is a whole number of steps of M_PI_2 / kHalfPi, the others   *)
(* are the two infinities and NaN. remainder() is exact in IEEE            *)
(* arithmetic, and so it is here.                                          *)

kHalfPi == 3
kMaxAngle == 20

M_PI_2 == kHalfPi

M_PI == 2 * kHalfPi

Radians(v) == [k |-> "finite", v |-> v]

AngleValues ==
  {Radians(v) : v \in (-kMaxAngle)..kMaxAngle}
    \cup {[k |-> "inf", v |-> 1], [k |-> "inf", v |-> -1], [k |-> "nan", v |-> 0]}

\* std::isfinite.
isfinite(x) == x.k = "finite"

\* fmod(x, y) in the place of remainder(x, y): the result has the sign of x
\* and a magnitude below y, not below y / 2.
fmod(x, y) == IF x >= 0 THEN x % y ELSE -((-x) % y)

\* remainder(x, y) of <cmath> for finite x and y > 0: x - n * y for the
\* integer n nearest to x / y, the even one of two equally near.
remainder(x, y) ==
  LET q == x \div y
      r == x - q * y
  IN  IF 2 * r < y THEN r
      ELSE IF 2 * r > y THEN r - y
      ELSE IF q % 2 = 0 THEN r ELSE r - y

\* S2LatLng::Invalid(): the coordinates (M_PI, 2 * M_PI).
Invalid == <<Radians(M_PI), Radians(2 * M_PI)>>

\* S2LatLng::is_valid(): |lat| <= M_PI_2 and |lng| <= M_PI, false for NaN.
is_valid(ll) ==
  /\ isfinite(ll[1]) /\ ll[1].v >= -M_PI_2 /\ ll[1].v <= M_PI_2
  /\ isfinite(ll[2]) /\ ll[2].v >= -M_PI /\ ll[2].v <= M_PI

\* S2LatLng::Normalized (56-66).
Normalized(ll) ==
  IF ~isfinite(ll[1]) \/ ~isfinite(ll[2]) THEN Invalid
  ELSE <<Radians(Max(-M_PI_2, Min(M_PI_2, ll[1].v))),
         Radians(remainder(ll[2].v, 2 * M_PI))>>

latlngRest ==
  <<exactfloatVars, toStringVars, predicateVars, coderVars, uintVectorVars,
    containsVars, nestingVars, polylineVars>>

InitLatLng ==
  /\ PolylineIdle
  /\ ExactFloatIdle
  /\ ToStringIdle
  /\ PredicateIdle
  /\ CoderIdle
  /\ UintVectorIdle
  /\ ContainsIdle
  /\ NestingIdle
  /\ coords_ \in AngleValues \X AngleValues
  /\ ll_call = "none"
  /\ ll_result = <<>>

CallNormalized ==
  /\ ll_call = "none"
  /\ ll_call' = "Normalized"
  /\ ll_result' = Normalized(coords_)
  /\ UNCHANGED coords_
  /\ UNCHANGED latlngRest

NextLatLng == CallNormalized

SpecLatLng == InitLatLng /\ [][NextLatLng]_vars

---------------------------------------------------------------------------
(* C21: Normalized() is valid exactly for finite coordinates.              *)

\* C21: Normalized() has returned a valid S2LatLng when both coordinates
\* were finite, and an invalid one when either was infinite or NaN.
C21_NormalizedValid ==
  ll_call = "Normalized" =>
    is_valid(ll_result) = (isfinite(coords_[1]) /\ isfinite(coords_[2]))

\* A longitude that is an odd multiple of M_PI beyond the range, where
\* remainder() has two nearest multiples of 2 * M_PI to choose from, and a
\* latitude beyond the pole.
C21_Witness ==
  /\ ll_call = "Normalized"
  /\ isfinite(coords_[1])
  /\ coords_[1].v > M_PI_2
  /\ isfinite(coords_[2])
  /\ coords_[2].v = 3 * M_PI
  /\ ll_result = <<Radians(M_PI_2), Radians(-M_PI)>>

---------------------------------------------------------------------------
(* C22: ldexp over the whole range of its exponent argument.               *)

\* C22 as claimed: ldexp(a, exp) of a normal a has returned a * 2^exp when
\* a.exp() + exp is within [kMinExp, kMaxExp], a zero with the sign of a
\* when it is below and an infinity with the sign of a when it is above.
C22_AsClaimed ==
  (op = "ldexp" /\ is_normal(args[1])) =>
    LET a == args[1]
        sum == exp(a) + iarg
    IN  IF sum < kMinExp THEN res = SignedZero(a.sign)
        ELSE IF sum > kMaxExp THEN res = Infinity(a.sign)
        ELSE res = EF(a.sign, a.bn_exp + iarg, a.bn)

\* The claim holds of every call whose exp is not below the lower limit the
\* code clamps it to, kMinExp - 1 + a.exp().
C22_AboveLowerClamp ==
  (op = "ldexp" /\ is_normal(args[1]) /\ iarg >= kMinExp - 1 + exp(args[1]))
    => C22_AsClaimed

---------------------------------------------------------------------------
(* C23: frexp.                                                             *)

\* C23 as claimed: frexp of a normal a has returned a fraction f with the
\* sign of a and 0.5 <= |f| < 1, that is exp() = 0, and an exponent e with
\* f * 2^e = a and ldexp(f, e) = a; of a zero, an infinity or a NaN it has
\* returned a itself and e = 0.
C23_AsClaimed ==
  op = "frexp" =>
    LET a == args[1]
    IN  IF is_normal(a)
        THEN /\ is_normal(res)
             /\ res.sign = a.sign
             /\ exp(res) = 0
             /\ EF(res.sign, res.bn_exp + iout, res.bn) = a
             /\ ldexp(res, iout) = a
        ELSE res = a /\ iout = 0

\* The claim holds of every a whose exp() is at most (kMaxExp + 1) / 2,
\* where ldexp does not clamp -a.exp().
C23_SmallExponents ==
  (op = "frexp" /\ 2 * exp(args[1]) <= kMaxExp + 1) => C23_AsClaimed

---------------------------------------------------------------------------
(* S2Polyline::Init and Decode (s2polyline.cc). The decoder reads the      *)
(* bytes of the coder above; an S2Point and a uint32_t take one byte each. *)

kMaxVertices == 2
kMaxPolylineBytes == 4

kCurrentLosslessEncodingVersionNumber == 1

kCurrentCompressedEncodingVersionNumber == 2

\* S2::kMaxCellLevel (30), within the range of a byte.
kMaxCellLevel == 5

\* sizeof(S2Point) and sizeof(uint32_t), in bytes of the model.
kSizeofS2Point == 1

kSizeofUint32 == 1

\* Decoder::get_varint32 (coder.h 613-622): a varint as get_varint64 reads
\* it.
get_varint32(bytes, pos) == get_varint64(bytes, pos)

\* What a call leaves: the value returned and the two fields.
Polyline(ret, n, held) == [ret |-> ret, num_vertices_ |-> n, vertices_ |-> held]

\* S2Polyline::Init(Span<const S2Point>) (119-126).
InitPolyline(vertices) == Polyline(TRUE, Len(vertices), vertices)

\* DecodeUncompressed (454-470) on the decoder at pos.
DecodeUncompressed(bytes, pos, n, held) ==
  IF Len(bytes) - pos < kSizeofUint32 THEN Polyline(FALSE, n, held)
  ELSE
    LET num == bytes[pos + 1]
        data == pos + kSizeofUint32
    IN  IF Len(bytes) - data < num * kSizeofS2Point
        THEN Polyline(FALSE, num, held)
        ELSE Polyline(TRUE, num, SubSeq(bytes, data + 1, data + num))

\* DecodeCompressed (533-556) on the decoder at pos; points_ok is what
\* S2DecodePointsCompressed returns, and the points it decodes are taken
\* from one byte each.
DecodeCompressed(bytes, pos, n, held, points_ok) ==
  IF Len(bytes) - pos < 1 THEN Polyline(FALSE, n, held)
  ELSE
    LET snap_level == bytes[pos + 1]
        g == get_varint32(bytes, pos + 1)
    IN  IF snap_level > kMaxCellLevel THEN Polyline(FALSE, n, held)
        ELSE IF ~g.ret THEN Polyline(FALSE, n, held)
        ELSE IF g.v = 0 THEN InitPolyline(<<>>)
        ELSE IF g.v > Len(bytes) - g.buf_ THEN Polyline(FALSE, n, held)
        ELSE IF ~points_ok THEN Polyline(FALSE, n, held)
        ELSE InitPolyline(SubSeq(bytes, g.buf_ + 1, g.buf_ + g.v))

\* S2Polyline::Decode (440-452) on a decoder over bytes.
DecodePolyline(bytes, n, held, points_ok) ==
  IF Len(bytes) < 1 THEN Polyline(FALSE, n, held)
  ELSE
    LET version == bytes[1]
    IN  IF version = kCurrentLosslessEncodingVersionNumber
        THEN DecodeUncompressed(bytes, 1, n, held)
        ELSE IF version = kCurrentCompressedEncodingVersionNumber
        THEN DecodeCompressed(bytes, 1, n, held, points_ok)
        ELSE Polyline(FALSE, n, held)

ByteSeqs(n) == UNION {[1..k -> Bytes] : k \in 0..n}

polylineRest ==
  <<exactfloatVars, toStringVars, predicateVars, coderVars, uintVectorVars,
    containsVars, nestingVars, latlngVars>>

\* S2Polyline::S2Polyline() (77-78).
InitPolylines ==
  /\ ExactFloatIdle
  /\ ToStringIdle
  /\ PredicateIdle
  /\ CoderIdle
  /\ UintVectorIdle
  /\ ContainsIdle
  /\ NestingIdle
  /\ LatLngIdle
  /\ num_vertices_ = 0
  /\ vertices_ = <<>>
  /\ pl_call = "none"
  /\ pl_ret = FALSE

CallInitPolyline ==
  \E vertices \in ByteSeqs(kMaxVertices) :
    LET r == InitPolyline(vertices)
    IN  /\ pl_call' = "Init"
        /\ pl_ret' = r.ret
        /\ num_vertices_' = r.num_vertices_
        /\ vertices_' = r.vertices_
        /\ UNCHANGED polylineRest

CallDecodePolyline ==
  \E bytes \in ByteSeqs(kMaxPolylineBytes), points_ok \in BOOLEAN :
    LET r == DecodePolyline(bytes, num_vertices_, vertices_, points_ok)
    IN  /\ pl_call' = "Decode"
        /\ pl_ret' = r.ret
        /\ num_vertices_' = r.num_vertices_
        /\ vertices_' = r.vertices_
        /\ UNCHANGED polylineRest

NextPolyline ==
  \/ CallInitPolyline
  \/ CallDecodePolyline

SpecPolyline == InitPolylines /\ [][NextPolyline]_vars

---------------------------------------------------------------------------
(* C24: num_vertices() against the vertices held.                          *)

\* C24 as claimed: after every Init and every Decode, whatever it returned,
\* num_vertices() is the number of vertices in the array.
C24_AsClaimed == num_vertices_ = Len(vertices_)

\* The count is the number of vertices held after every Init and after
\* every Decode that returned true.
C24_AfterSuccess ==
  (pl_call = "Init" \/ (pl_call = "Decode" /\ pl_ret)) => C24_AsClaimed

====
